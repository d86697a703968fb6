---------------------------- MODULE LoginThrottle ----------------------------
(***************************************************************************)
(* The password form (api/auth.py, login): what it remembers of failed     *)
(* sign-ins, and the places for password checks, of which there are few    *)
(* because a check is expensive (services/auth.py, authenticate).          *)
(*                                                                         *)
(* Requests run in threads of their own.  Each looks at the buckets, takes *)
(* a place, reserves its account, checks, gives both back, and records     *)
(* what came out, in steps between which others run.                       *)
(*                                                                         *)
(* Time is relative: an entry knows how old it is and how long it locks    *)
(* yet, so that the clock needs no bound.                                  *)
(***************************************************************************)
EXTENDS Integers, FiniteSets, SequencesExt

CONSTANTS
    Threads,       \* requests
    Owner,         \* the one of somebody who knows the password
    Account,       \* for a thread the account it is about, a bucket
    Flood,         \* for a thread those of its source and its peer, a sequence
    Threshold,     \* for a bucket the failures from which on it locks
    Places,        \* SCRYPT_MAX_CONCURRENCY
    LockTime, Kept,    \* _LOGIN_LOCK_SECONDS, _LOGIN_BACKOFF_TTL_SECONDS
    MaxEntries,    \* _MAX_LOGIN_BACKOFF_ENTRIES
    MaxFaults      \* bound: wrong passwords, and checks that raise

ThrottleAssumption ==
    /\ Owner \in Threads
    /\ {Places, LockTime, Kept, MaxEntries} \subseteq Nat \ {0}
    /\ LockTime <= Kept /\ MaxFaults \in Nat
    /\ \A t \in Threads : {Account[t]} \union ToSet(Flood[t]) \subseteq DOMAIN Threshold

VARIABLES
    backoff,    \* _LOGIN_BACKOFF, the entry seen longest ago first
    reserved,   \* _ACTIVE_ACCOUNT_CHECKS
    free,       \* _PASSWORD_CHECK_SLOTS
    request,    \* how far a thread is
    signedIn,
    wrong       \* counted by MaxFaults

LTHvars == <<backoff, reserved, free, request, signedIn, wrong>>

Buckets == DOMAIN Threshold
Most == CHOOSE n \in {Threshold[b] : b \in Buckets} : \A b \in Buckets : Threshold[b] <= n

Oldest == 2 * Kept    \* ages beyond are not told apart
Entry == [bucket : Buckets, failures : 1..Most, locks : 0..LockTime, age : 0..Oldest]

(* A request at the gate, past it, with a place, with its account too; one *)
(* that is about to record a failure knows what time it was.               *)
Idle == [at |-> "idle"]
Stages == {"gate", "admitted", "placed", "checking", "accepted"}
Requests == {Idle} \union [at : Stages] \union [at : {"failed"}, lag : 0..Kept]

TypeOK ==
    /\ \A i \in 1..Len(backoff) : backoff[i] \in Entry
    /\ Len(backoff) <= MaxEntries
    /\ reserved \subseteq {Account[t] : t \in Threads}
    /\ free \in 0..Places
    /\ request \in [Threads -> Requests]
    /\ signedIn \in BOOLEAN /\ wrong \in 0..MaxFaults

Init ==
    /\ backoff = <<>> /\ reserved = {} /\ free = Places
    /\ request = [t \in Threads |-> Idle]
    /\ signedIn = FALSE /\ wrong = 0

-----------------------------------------------------------------------------
AllBuckets(t) == <<Account[t]>> \o Flood[t]
Locked(t) == \E e \in ToSet(backoff) : e.bucket \in ToSet(AllBuckets(t)) /\ e.locks > 0

Goto(t, stage) == request' = [request EXCEPT ![t] = [at |-> stage]]

Wrong == wrong < MaxFaults /\ wrong' = wrong + 1

Send(t) ==
    /\ request[t] = Idle
    /\ IF t = Owner THEN ~signedIn /\ UNCHANGED wrong ELSE Wrong
    /\ Goto(t, "gate")
    /\ UNCHANGED <<backoff, reserved, free, signedIn>>

(* _login_locked: the form is shown again, with the advice to retry. *)
Gate(t) ==
    /\ request[t].at = "gate"
    /\ Goto(t, IF Locked(t) THEN "idle" ELSE "admitted")
    /\ UNCHANGED <<backoff, reserved, free, signedIn, wrong>>

(* _begin_password_check, in two steps. *)
TakePlace(t) ==
    /\ request[t].at = "admitted"
    /\ IF free = 0 THEN Goto(t, "idle") /\ UNCHANGED free
       ELSE Goto(t, "placed") /\ free' = free - 1
    /\ UNCHANGED <<backoff, reserved, signedIn, wrong>>

Reserve(t) ==
    /\ request[t].at = "placed"
    /\ IF Account[t] \in reserved
       THEN Goto(t, "idle") /\ free' = free + 1 /\ UNCHANGED reserved
       ELSE Goto(t, "checking") /\ reserved' = reserved \union {Account[t]} /\ UNCHANGED free
    /\ UNCHANGED <<backoff, signedIn, wrong>>

(* _end_password_check, however the check ended. *)
GivenBackUnlessRaised(t, outcome) ==
    IF outcome = "raises" THEN reserved ELSE reserved \ {Account[t]}
GivenBack(t, outcome) == reserved \ {Account[t]}

End(t, outcome) == reserved' = GivenBack(t, outcome) /\ free' = free + 1

(* authenticate *)
Accepted(t) ==
    /\ request[t].at = "checking" /\ t = Owner
    /\ End(t, "accepted") /\ Goto(t, "accepted")
    /\ UNCHANGED <<backoff, signedIn, wrong>>

(* Whoever knows the password mistypes it, too. *)
Mistake(t) == IF t = Owner THEN Wrong ELSE UNCHANGED wrong

(* _record_failed_login reads the clock before it waits for its lock. *)
Rejected(t) ==
    /\ request[t].at = "checking" /\ Mistake(t)
    /\ End(t, "rejected")
    /\ request' = [request EXCEPT ![t] = [at |-> "failed", lag |-> 0]]
    /\ UNCHANGED <<backoff, signedIn>>

Raises(t) ==
    /\ request[t].at = "checking" /\ Mistake(t)
    /\ End(t, "raises") /\ Goto(t, "idle")
    /\ UNCHANGED <<backoff, signedIn>>

-----------------------------------------------------------------------------
(* What has been seen too long ago goes, up to the first that has not.     *)
Pruned(lag) ==
    LET gone == {i \in 1..Len(backoff) : \A j \in 1..i : backoff[j].age - lag >= Kept}
    IN  SubSeq(backoff, Cardinality(gone) + 1, Len(backoff))

Without(entries, buckets) == SelectSeq(entries, LAMBDA e : e.bucket \notin buckets)

(* As many as before and one more; beyond the thresholds it is all one.    *)
Failures(b, lag) ==
    LET before == {e \in ToSet(Pruned(lag)) : e.bucket = b}
    IN  CHOOSE n \in 1..Most :
           IF before = {} THEN n = 1
           ELSE \E e \in before : n = IF e.failures < Most THEN e.failures + 1 ELSE Most

Counted(b, lag) ==
    [bucket |-> b, failures |-> Failures(b, lag), age |-> lag,
     locks |-> IF Failures(b, lag) >= Threshold[b] /\ lag < LockTime THEN LockTime - lag ELSE 0]

(* Those of this request become the latest; without room the oldest go.    *)
RecordFailure(t) ==
    /\ request[t].at = "failed"
    /\ LET mine == AllBuckets(t)
           lag == request[t].lag
           counted == Without(Pruned(lag), ToSet(mine))
                        \o [i \in 1..Len(mine) |-> Counted(mine[i], lag)]
           extra == Len(counted) - MaxEntries
       IN  backoff' = IF extra > 0 THEN SubSeq(counted, extra + 1, Len(counted)) ELSE counted
    /\ Goto(t, "idle")
    /\ UNCHANGED <<reserved, free, signedIn, wrong>>

(* The account's bucket goes, and there is a session. *)
Complete(t) ==
    /\ request[t].at = "accepted"
    /\ backoff' = Without(backoff, {Account[t]})
    /\ signedIn' = TRUE
    /\ Goto(t, "idle")
    /\ UNCHANGED <<reserved, free, wrong>>

(* The unit of time is the second of the lock. *)
Tick ==
    /\ backoff' = [i \in 1..Len(backoff) |->
                     LET e == backoff[i]
                     IN  [e EXCEPT !.locks = IF @ > 0 THEN @ - 1 ELSE 0,
                                   !.age = IF @ < Oldest THEN @ + 1 ELSE Oldest]]
    /\ request' = [t \in Threads |->
                     IF request[t].at = "failed"
                     THEN [request[t] EXCEPT !.lag = IF @ < Kept THEN @ + 1 ELSE Kept]
                     ELSE request[t]]
    /\ UNCHANGED <<reserved, free, signedIn, wrong>>

Proceed(t) ==
    \/ Gate(t) \/ TakePlace(t) \/ Reserve(t)
    \/ Accepted(t) \/ Rejected(t) \/ Raises(t)
    \/ RecordFailure(t) \/ Complete(t)

Next == Tick \/ \E t \in Threads : Send(t) \/ Proceed(t)

(* Threads run on; whoever knows the password tries again; time passes.    *)
Fairness ==
    /\ WF_LTHvars(Tick) /\ WF_LTHvars(Send(Owner))
    /\ \A t \in Threads : WF_LTHvars(Proceed(t))

Spec == Init /\ [][Next]_LTHvars /\ Fairness

-----------------------------------------------------------------------------
(* The throttle slows guessing down and shuts nobody out: after the wrong  *)
(* passwords and the checks that raised, whoever knows the password gets   *)
(* in, however the requests interleaved and whatever buckets they share.   *)
RightPasswordGetsIn == <>signedIn
==============================================================================
