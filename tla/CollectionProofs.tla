------------------------- MODULE CollectionProofs ---------------------------
(***************************************************************************)
(* What the log datasource and the rollups keep, for every value of their  *)
(* constants: one event for one fact, and every event counted once.        *)
(***************************************************************************)
EXTENDS LogTail, Rollups, WellFoundedInduction, TLAPS

-----------------------------------------------------------------------------
(***************************************************************************)
(* The log datasource.  Its tick looks up duplicates before it holds the   *)
(* write lock, and a manual ban becomes visible in the log before its own  *)
(* event is committed; the invariant says why neither does harm: whoever   *)
(* gets past the lock finds every ban of the log over, and what is over    *)
(* changes no more.                                                        *)
(***************************************************************************)

(***************************************************************************)
(* The inductive invariant                                                 *)
(***************************************************************************)
Halves == [head : SUBSET Marks, rest : SUBSET Marks]

\* The size of the log is that of its lines, and of a half one.
FileInv ==
  \/ file.size = 2 * (written + 1 - file.first)
  \/ file.size = 2 * (written + 1 - file.first) + 1 /\ written < MaxLines

\* What is read or stored was written, a whole line or the half that there is.
Present(p) ==
  \/ p.line <= written
  \/ p.part = "head" /\ p.line = written + 1 /\ file.size % 2 = 1

LineInv ==
  /\ file.first <= written + 1
  /\ \A p \in Pieces : stored[p] > 0 \/ p \in batch => Present(p)

\* An action that is under way holds the lock.
LockInv == \A a \in Acts : act[a] \in {"open", "done", "failed"} => lock = a

\* A ban comes from an action that was executed, and that is over if the line
\* got past the lock.
BanInv ==
  /\ \A a \in effected : act[a] \in {"done", "failed", "over"}
  /\ \A k \in Lines : ban[k] # 0 => ban[k] \in Acts /\ act[ban[k]] \in {"done", "failed", "over"}
  /\ \A p \in Pieces : IsBan(p) /\ (stored[p] > 0 \/ (p \in batch /\ judged # "now")) =>
                        act[ban[p.line]] = "over"

\* No action has an event that the rules find for a piece.
Unrecorded(p) ==
  IsBan(p) =>
    /\ "action" \in Sight(p) => acted[ban[p.line]] = "none"
    /\ "address" \in Sight(p) => acted[ban[p.line]] # "ban"

\* What a look-up said before the lock is still so under it.
JudgeInv ==
  judged = "new" /\ Foremost \in batch =>
    stored[Foremost] = 0 /\ Unrecorded(Foremost)

\* From the clean-up on every event is counted once.
CountInv ==
  /\ up => maintained
  /\ ~up => batch = {}
  /\ maintained => \A p \in Pieces \ forgotten : stored[p] <= 1 /\ counted[p] = stored[p]
  /\ ~maintained => \E p \in Pieces : stored[p] > 1

LogInv ==
  /\ TypeOK /\ FileInv /\ LineInv /\ LockInv /\ BanInv
  /\ JudgeInv /\ OneBanOneEvent /\ CountInv

(***************************************************************************)
(* Arithmetic of the log                                                   *)
(***************************************************************************)
LEMMA Parity ==
  ASSUME NEW x \in Int
  PROVE  /\ (2 * x) % 2 = 0 /\ (2 * x + 1) % 2 = 1
  OBVIOUS

\* An even log ends with a whole line, an odd one with half of a line that is
\* within the bound.
LEMMA LogEnds ==
  ASSUME TypeOK, FileInv
  PROVE  /\ file.size % 2 = 0 => file.size = 2 * (written + 1 - file.first)
         /\ file.size % 2 = 1 => /\ file.size = 2 * (written + 1 - file.first) + 1
                                 /\ written < MaxLines
<1>1. written + 1 - file.first \in Int
  BY LogTailAssumption DEF TypeOK
<1> DEFINE x == written + 1 - file.first
<1>2. (2 * x) % 2 = 0 /\ (2 * x + 1) % 2 = 1
  BY <1>1, Parity
<1>3. file.size = 2 * x \/ (file.size = 2 * x + 1 /\ written < MaxLines)
  BY DEF FileInv
<1>. QED
  BY <1>2, <1>3

\* How far a tick reads is within the log.
LEMMA UntilType ==
  ASSUME TypeOK
  PROVE  Until \in Nat /\ Until <= file.size
<1>1. tail.offset \in Nat /\ file.size \in Nat /\ Batch \in Nat
  BY LogTailAssumption DEF TypeOK
<1>2. From \in Nat
  BY <1>1 DEF From
<1>3. 2 * (From \div 2 + Batch) \in Nat
  BY <1>1, <1>2
<1>. QED
  BY <1>1, <1>3 DEF Until

\* What is read was written.
LEMMA ReadPresent ==
  ASSUME TypeOK, FileInv, NEW p \in Read
  PROVE  p \in Pieces /\ Present(p)
<1>1. /\ p \in Pieces /\ Ends(p) <= Until
      /\ p.part = "head" => Ends(p) = file.size
  BY DEF Read
<1>2. Until \in Nat /\ Until <= file.size
  BY UntilType
<1>3. p.line \in Int /\ written \in Int /\ file.first \in Int /\ file.size \in Int
  BY <1>1, LogTailAssumption DEF TypeOK, Lines, Pieces
<1> DEFINE x == written + 1 - file.first
           y == p.line - file.first
<1>4. x \in Int /\ y \in Int
  BY <1>3
<1>5. file.size = 2 * x \/ file.size = 2 * x + 1
  BY DEF FileInv
<1>6. CASE p.part = "head"
  <2>1. 2 * y + 1 = file.size
    BY <1>1, <1>6 DEF Ends, At
  <2>2. (2 * x) % 2 = 0 /\ (2 * y + 1) % 2 = 1
    BY <1>4, Parity
  <2>3. file.size % 2 = 1 /\ file.size = 2 * x + 1
    BY <1>5, <2>1, <2>2
  <2>4. p.line = written + 1
    <3>1. y = x
      BY <1>4, <2>1, <2>3
    <3> QED BY <1>3, <3>1
  <2> QED BY <1>1, <1>6, <2>3, <2>4 DEF Present
<1>7. CASE p.part # "head"
  <2>1. 2 * y + 2 <= 2 * x + 1
    BY <1>1, <1>2, <1>3, <1>4, <1>5, <1>7 DEF Ends, At
  <2>2. p.line <= written
    BY <1>3, <2>1
  <2> QED BY <1>1, <2>2 DEF Present
<1> QED BY <1>6, <1>7

\* The parser sees the same of two states that agree on the line of a piece.
LEMMA SightSame ==
  ASSUME NEW p \in Pieces, ban'[p.line] = ban[p.line],
         p.part = "head" => halves'[p.line].head = halves[p.line].head,
         p.part = "rest" => halves'[p.line].rest = halves[p.line].rest
  PROVE  Sight(p)' = Sight(p) /\ (IsBan(p)' <=> IsBan(p))
BY DEF Sight, IsBan, Pieces

(***************************************************************************)
(* What is stored of a chunk                                               *)
(***************************************************************************)
\* A piece that no rule finds an event for is not recorded by its action.
LEMMA NoDuplicate ==
  ASSUME LogInv, NEW p \in Pieces, ~Duplicate(stored, p)
  PROVE  stored[p] = 0 /\ Unrecorded(p)
<1>1. ~ByRule(stored, p) /\ ~(stored[p] > 0)
  BY DEF Duplicate
<1>2. stored[p] \in 0..2 /\ p.line \in Lines
  BY DEF LogInv, TypeOK, Pieces
<1>3. IsBan(p) => ban[p.line] \in Acts
  BY <1>2 DEF LogInv, BanInv, IsBan
<1>. QED
  BY <1>1, <1>2, <1>3 DEF ByRule, BanAt, BanEvents, Unrecorded

\* A piece that is stored as new has no event yet, and no action has one that
\* the rules would find.
LEMMA NewIsNew ==
  ASSUME LogInv, NEW good, good \subseteq batch, NEW p \in NewOf(good)
  PROVE  /\ p \in good /\ p \in Pieces
         /\ stored[p] = 0 /\ Unrecorded(p)
<1>1. p \in good /\ IsNew(p)
  BY DEF NewOf
<1>2. p \in batch /\ p \in Pieces
  BY <1>1 DEF LogInv, TypeOK
<1>3. CASE ~Duplicate(stored, p)
  BY <1>1, <1>2, <1>3, NoDuplicate
<1>4. CASE Duplicate(stored, p)
  <2>1. p = Foremost /\ judged = "new"
    BY <1>1, <1>4 DEF IsNew
  <2>. QED
    BY <1>1, <1>2, <2>1 DEF LogInv, JudgeInv
<1>. QED
  BY <1>3, <1>4

LEMMA ChunkInBatch == NextChunk \subseteq batch
  BY DEF NextChunk, Earliest

\* While nothing holds the lock, every ban that is in the log is over.
LEMMA UnlockedOver ==
  ASSUME LogInv, lock = 0, NEW k \in Lines, ban[k] # 0
  PROVE  act[ban[k]] = "over"
<1>1. ban[k] \in Acts /\ act[ban[k]] \in {"done", "failed", "over"}
  BY DEF LogInv, BanInv
<1>. QED
  BY <1>1 DEF LogInv, LockInv

(***************************************************************************)
(* The initial states                                                      *)
(***************************************************************************)
LEMMA LogInitInv == Init => LogInv
<1> SUFFICES ASSUME Init PROVE LogInv
  OBVIOUS
<1> USE LogTailAssumption
<1>0. MaxLines \in Nat /\ Backlog \in Nat /\ Backlog <= MaxLines
  OBVIOUS
<1>1. /\ ban = [k \in Lines |-> 0] /\ halves = [k \in Lines |-> Unsplit] /\ tail = NoTail /\ batch = {} /\ judged = "now"
      /\ merged = {} /\ spoiled = {}
      /\ act = [a \in Acts |-> "none"] /\ acted = [a \in Acts |-> "none"]
      /\ effected = {} /\ lock = 0 /\ up = FALSE /\ faults = 0
  BY DEF Init
<1>t. /\ ban \in [Lines -> Acts \union {0}] /\ halves \in [Lines -> Halves]
      /\ tail \in [offset : Nat, inode : Nat, size : Nat]
      /\ act \in [Acts -> {"none", "open", "done", "failed", "over"}]
      /\ acted \in [Acts -> {"none", "ban", "failed"}] /\ faults \in 0..MaxFaults
  BY <1>1 DEF NoTail, Unsplit, Halves
<1>2. CASE /\ written = Backlog /\ maintained = TRUE
           /\ file = [inode |-> 1, first |-> 1, size |-> 2 * Backlog, cut |-> FALSE]
           /\ stored = [p \in Pieces |-> 0] /\ counted = stored /\ forgotten = {}
  <2>a. /\ written \in 0..MaxLines
        /\ file \in [inode : Nat, first : 1..(MaxLines + 1), size : Nat, cut : BOOLEAN]
    BY <1>0, <1>2
  <2>b. stored \in [Pieces -> 0..2] /\ counted \in [Pieces -> Nat] /\ forgotten \in SUBSET Pieces
    BY <1>2
  <2>1. TypeOK
    BY <1>1, <1>2, <1>t, <2>a, <2>b DEF TypeOK, Halves
  <2>2. FileInv /\ LineInv
    BY <1>0, <1>1, <1>2 DEF FileInv, LineInv
  <2>3. LockInv /\ BanInv /\ JudgeInv /\ OneBanOneEvent /\ CountInv
    BY <1>1, <1>2 DEF LockInv, BanInv, JudgeInv, OneBanOneEvent, CountInv, IsBan, Pieces
  <2>. QED
    BY <2>1, <2>2, <2>3 DEF LogInv
<1>3. CASE /\ written = 2 /\ MaxLines >= 2 /\ maintained = FALSE
           /\ file = [inode |-> 1, first |-> 3, size |-> 0, cut |-> FALSE]
           /\ stored = [p \in Pieces |-> IF p = Whole(2) THEN 2 ELSE 0]
           /\ counted = [p \in Pieces |-> CASE p = Whole(1) -> 1 [] p = Whole(2) -> 2 [] OTHER -> 0]
           /\ forgotten = {Whole(1)}
  <2>0. Whole(1) \in Pieces /\ Whole(2) \in Pieces /\ Whole(2).line = 2
    BY <1>0, <1>3 DEF Whole, Pieces, Lines
  <2>1. counted \in [Pieces -> Nat] /\ stored \in [Pieces -> 0..2]
    <3>1. \A p \in Pieces :
            (CASE p = Whole(1) -> 1 [] p = Whole(2) -> 2 [] OTHER -> 0) \in Nat
      OBVIOUS
    <3>. QED
      BY <1>3, <3>1
  <2>a. /\ written \in 0..MaxLines
        /\ file \in [inode : Nat, first : 1..(MaxLines + 1), size : Nat, cut : BOOLEAN]
    BY <1>0, <1>3
  <2>b. maintained \in BOOLEAN /\ forgotten \in SUBSET Pieces
    BY <1>3, <2>0
  <2>2. TypeOK
    BY <1>1, <1>t, <2>a, <2>b, <2>1 DEF TypeOK, Halves
  <2>3. FileInv /\ LineInv
    <3>1. \A p \in Pieces : stored[p] > 0 => p.line = 2
      BY <1>3, <2>0
    <3>. QED
      BY <1>0, <1>1, <1>3, <3>1 DEF FileInv, LineInv, Present
  <2>4. \E p \in Pieces : stored[p] > 1
    BY <1>3, <2>0
  <2>5. LockInv /\ BanInv /\ JudgeInv /\ OneBanOneEvent /\ CountInv
    BY <1>1, <1>3, <2>4 DEF LockInv, BanInv, JudgeInv, OneBanOneEvent, CountInv, IsBan, Pieces
  <2>. QED
    BY <2>2, <2>3, <2>5 DEF LogInv
<1>. QED
  BY <1>2, <1>3 DEF Init

(***************************************************************************)
(* The log: a line, its rest, and rotation                                 *)
(***************************************************************************)
\* Whatever shows the same of what is read and stored leaves the rest as it is.
LEMMA SightKeeps ==
  ASSUME LogInv,
         \A p \in Pieces : stored[p] > 0 \/ p \in batch =>
                             Sight(p)' = Sight(p) /\ ban'[p.line] = ban[p.line],
         \A k \in Lines : ban'[k] # 0 => ban'[k] \in Acts /\ act[ban'[k]] \in {"done", "failed", "over"},
         UNCHANGED <<effected, batch, judged, stored, counted, forgotten,
                     act, acted, lock, up, maintained>>
  PROVE  LockInv' /\ BanInv' /\ JudgeInv' /\ OneBanOneEvent' /\ CountInv'
<1>1. TypeOK /\ LockInv /\ BanInv /\ JudgeInv /\ OneBanOneEvent /\ CountInv
  BY DEF LogInv
<1>2. LockInv' /\ CountInv'
  BY <1>1 DEF LockInv, CountInv
<1>3. BanInv'
  BY <1>1 DEF BanInv, IsBan
<1>4. JudgeInv'
  <2>1. Foremost' = Foremost
    BY DEF Foremost
  <2> SUFFICES ASSUME judged = "new", NEW p, p = Foremost, p \in batch
               PROVE  stored[p] = 0 /\ Unrecorded(p)'
    BY <2>1 DEF JudgeInv, Unrecorded, IsBan, Sight
  <2>2. Sight(p)' = Sight(p) /\ ban'[p.line] = ban[p.line]
    BY <1>1 DEF TypeOK
  <2>3. stored[p] = 0 /\ Unrecorded(p)
    BY <1>1 DEF JudgeInv
  <2>. QED
    BY <2>2, <2>3 DEF Unrecorded, IsBan
<1>5. OneBanOneEvent'
  BY <1>1 DEF OneBanOneEvent, IsBan
<1>. QED
  BY <1>2, <1>3, <1>4, <1>5

\* What a line shows may change until it is complete, but not in what there is of it.
LEMMA WriteKeeps ==
  ASSUME LogInv, NEW a \in Acts \union {0}, Write(a)
  PROVE  LogInv'
<1> USE LogTailAssumption
<1>1. TypeOK /\ FileInv /\ LineInv /\ BanInv
  BY DEF LogInv
<1>2. /\ file.size % 2 = 0 /\ written < MaxLines /\ a \in Due \union {0}
      /\ ban' = [ban EXCEPT ![written + 1] = a]
      /\ UNCHANGED <<effected, tail, batch, judged, stored, counted, merged, forgotten, spoiled,
                     act, acted, lock, up, maintained>>
  BY DEF Write, ctlvars, rowvars, actvars
<1>3. /\ written \in Nat /\ MaxLines \in Nat /\ file.size \in Nat /\ file.first \in Nat
      /\ file \in [inode : Nat, first : 1..(MaxLines + 1), size : Nat, cut : BOOLEAN]
      /\ faults \in 0..MaxFaults /\ MaxFaults \in Nat
  BY <1>1 DEF TypeOK
<1>4. \/ Grow(2) /\ written' = written + 1 /\ faults' = faults /\ halves' = halves
      \/ /\ Grow(1) /\ Fault /\ written' = written
         /\ \E seen \in Shows(a) :
               halves' = [halves EXCEPT ![written + 1] = [head |-> seen, rest |-> {}]]
  BY DEF Write
<1>5. written + 1 \in Lines
  BY <1>2, <1>3 DEF Lines
<1>6. file.size = 2 * (written + 1 - file.first)
  BY <1>1, <1>2, LogEnds
<1>7. /\ file'.first = file.first /\ written \in 0..MaxLines /\ written <= written'
      /\ written' \in 0..MaxLines /\ faults' \in 0..MaxFaults
      /\ file' \in [inode : Nat, first : 1..(MaxLines + 1), size : Nat, cut : BOOLEAN]
  <2>1. CASE Grow(2) /\ written' = written + 1 /\ faults' = faults
    BY <1>2, <1>3, <2>1 DEF Grow
  <2>2. CASE Grow(1) /\ Fault /\ written' = written
    BY <1>2, <1>3, <2>2 DEF Grow, Fault
  <2>. QED
    BY <1>4, <2>1, <2>2
<1>8. ban' \in [Lines -> Acts \union {0}] /\ halves' \in [Lines -> Halves]
  <2>1. ban' \in [Lines -> Acts \union {0}]
    BY <1>1, <1>2, <1>5 DEF TypeOK
  <2>2. \A seen \in Shows(a) : [head |-> seen, rest |-> {}] \in Halves
    BY DEF Shows, Marks, Halves
  <2>3. halves \in [Lines -> Halves]
    BY <1>1 DEF TypeOK, Halves
  <2> HIDE DEF Halves
  <2>4. halves' \in [Lines -> Halves]
    BY <1>4, <2>2, <2>3
  <2>. QED
    BY <2>1, <2>4
<1>9. TypeOK'
  BY <1>1, <1>2, <1>7, <1>8 DEF TypeOK, Halves
<1>10. FileInv'
  <2>1. CASE Grow(2) /\ written' = written + 1
    <3>1. file'.size = file.size + 2 /\ file'.first = file.first
      BY <1>3, <2>1 DEF Grow
    <3>. QED
      BY <1>3, <1>6, <2>1, <3>1 DEF FileInv
  <2>2. CASE Grow(1) /\ written' = written
    <3>1. file'.size = file.size + 1 /\ file'.first = file.first
      BY <1>3, <2>2 DEF Grow
    <3>. QED
      BY <1>2, <1>3, <1>6, <2>2, <3>1 DEF FileInv
  <2>. QED
    BY <1>4, <2>1, <2>2
<1>11. \A p \in Pieces : stored[p] > 0 \/ p \in batch => p.line \in Lines /\ p.line <= written
  BY <1>1, <1>2, <1>3 DEF LineInv, Present, Pieces, Lines
<1>12. LineInv'
  BY <1>1, <1>2, <1>3, <1>7, <1>11 DEF LineInv, Present, Lines
<1>13. /\ \A k \in Lines : ban'[k] = IF k = written + 1 THEN a ELSE ban[k]
       /\ \A k \in Lines : k # written + 1 => halves'[k] = halves[k]
  BY <1>1, <1>2, <1>4, <1>5 DEF TypeOK
<1>14. \A p \in Pieces : stored[p] > 0 \/ p \in batch =>
                           Sight(p)' = Sight(p) /\ ban'[p.line] = ban[p.line]
  <2> SUFFICES ASSUME NEW p \in Pieces, stored[p] > 0 \/ p \in batch
               PROVE  Sight(p)' = Sight(p) /\ ban'[p.line] = ban[p.line]
    OBVIOUS
  <2>1. p.line \in Lines /\ p.line # written + 1
    BY <1>3, <1>11 DEF Lines
  <2>2. ban'[p.line] = ban[p.line] /\ halves'[p.line] = halves[p.line]
    BY <1>13, <2>1
  <2>. QED
    BY <2>2, SightSame
<1>15. \A k \in Lines : ban'[k] # 0 => ban'[k] \in Acts /\ act[ban'[k]] \in {"done", "failed", "over"}
  <2>1. a # 0 => a \in Acts /\ act[a] \in {"done", "failed", "over"}
    BY <1>1, <1>2 DEF Due, BanInv
  <2>. QED
    BY <1>1, <1>13, <2>1 DEF BanInv
<1>. QED
  BY <1>2, <1>9, <1>10, <1>12, <1>14, <1>15, SightKeeps DEF LogInv

\* Steps of the log that no other part takes notice of.
LEMMA RestUnchanged ==
  ASSUME LogInv,
         UNCHANGED <<ban, halves, effected, batch, judged, stored, counted, forgotten,
                     act, acted, lock, up, maintained>>
  PROVE  LockInv' /\ BanInv' /\ JudgeInv' /\ OneBanOneEvent' /\ CountInv'
<1>1. \A p \in Pieces : Sight(p)' = Sight(p) /\ ban'[p.line] = ban[p.line]
  BY SightSame
<1>2. \A k \in Lines : ban'[k] # 0 => ban'[k] \in Acts /\ act[ban'[k]] \in {"done", "failed", "over"}
  BY DEF LogInv, BanInv
<1>. QED
  BY <1>1, <1>2, SightKeeps

LEMMA WriteRestKeeps ==
  ASSUME LogInv, WriteRest
  PROVE  LogInv'
<1> USE LogTailAssumption
<1>1. TypeOK /\ FileInv /\ LineInv
  BY DEF LogInv
<1>2. /\ file.size % 2 = 1 /\ Grow(1) /\ written' = written + 1
      /\ UNCHANGED <<ban, effected, tail, batch, judged, stored, counted, merged, forgotten, spoiled,
                     act, acted, lock, up, maintained, faults>>
  BY DEF WriteRest, ctlvars, rowvars, actvars
<1>3. /\ written \in Nat /\ MaxLines \in Nat /\ file.size \in Nat /\ file.first \in Nat
      /\ file \in [inode : Nat, first : 1..(MaxLines + 1), size : Nat, cut : BOOLEAN]
  BY <1>1 DEF TypeOK
<1>4. file.size = 2 * (written + 1 - file.first) + 1 /\ written < MaxLines
  BY <1>1, <1>2, LogEnds
<1>5. /\ file' \in [inode : Nat, first : 1..(MaxLines + 1), size : Nat, cut : BOOLEAN]
      /\ file'.first = file.first /\ file'.size = file.size + 1
  BY <1>2, <1>3 DEF Grow
<1>6. written' \in 0..MaxLines /\ written + 1 \in Lines
  BY <1>2, <1>3, <1>4 DEF Lines
<1>7. PICK seen \in Shows(ban[written + 1]) :
        halves' = [halves EXCEPT ![written + 1] = [head |-> halves[written + 1].head, rest |-> seen]]
  BY <1>2 DEF WriteRest
<1>8. halves' \in [Lines -> Halves]
  <2>1. seen \subseteq Marks
    BY DEF Shows, Marks
  <2>2. halves \in [Lines -> Halves]
    BY <1>1 DEF TypeOK, Halves
  <2>3. [head |-> halves[written + 1].head, rest |-> seen] \in Halves
    BY <1>6, <2>1, <2>2 DEF Halves
  <2>. QED
    BY <1>7, <2>2, <2>3
<1>9. /\ halves'[written + 1].head = halves[written + 1].head
      /\ \A k \in Lines : k # written + 1 => halves'[k] = halves[k]
  BY <1>1, <1>6, <1>7 DEF TypeOK
<1>10. TypeOK'
  BY <1>1, <1>2, <1>5, <1>6, <1>8 DEF TypeOK, Halves
<1>11. FileInv'
  BY <1>2, <1>3, <1>4, <1>5 DEF FileInv
<1>12. LineInv'
  <2>1. \A p \in Pieces : p.line \in Int
    BY <1>3 DEF Pieces, Lines
  <2>2. \A p \in Pieces : Present(p) => p.line <= written'
    BY <1>2, <1>3, <2>1 DEF Present
  <2>. QED
    BY <1>1, <1>2, <1>3, <1>5, <2>2 DEF LineInv, Present
<1>13. \A p \in Pieces : stored[p] > 0 \/ p \in batch =>
                           Sight(p)' = Sight(p) /\ ban'[p.line] = ban[p.line]
  <2> SUFFICES ASSUME NEW p \in Pieces, stored[p] > 0 \/ p \in batch
               PROVE  Sight(p)' = Sight(p) /\ ban'[p.line] = ban[p.line]
    OBVIOUS
  <2>1. p.line \in Lines /\ Present(p)
    BY <1>1 DEF LineInv, Pieces
  <2>2. ban'[p.line] = ban[p.line]
    BY <1>2
  <2>3. CASE p.line = written + 1
    <3>1. p.part = "head"
      BY <1>3, <2>1, <2>3 DEF Present
    <3>. QED
      BY <1>9, <2>2, <2>3, <3>1, SightSame
  <2>4. CASE p.line # written + 1
    BY <1>9, <2>1, <2>2, <2>4, SightSame
  <2>. QED
    BY <2>3, <2>4
<1>14. \A k \in Lines : ban'[k] # 0 => ban'[k] \in Acts /\ act[ban'[k]] \in {"done", "failed", "over"}
  BY <1>2 DEF LogInv, BanInv
<1>. QED
  BY <1>2, <1>10, <1>11, <1>12, <1>13, <1>14, SightKeeps DEF LogInv

LEMMA RotateKeeps ==
  ASSUME LogInv, Rotate
  PROVE  LogInv'
<1> USE LogTailAssumption
<1>1. TypeOK /\ FileInv /\ LineInv
  BY DEF LogInv
<1>2. /\ UNCHANGED <<written, ban, halves, effected, tail, batch, judged, stored, counted, merged, forgotten,
                     spoiled, act, acted, lock, up, maintained>>
      /\ Fault
  BY DEF Rotate, ctlvars, rowvars, actvars
<1>3. /\ written \in 0..MaxLines /\ MaxLines \in Nat /\ file.inode \in Nat
      /\ file \in [inode : Nat, first : 1..(MaxLines + 1), size : Nat, cut : BOOLEAN]
      /\ faults \in 0..MaxFaults /\ MaxFaults \in Nat
  BY <1>1 DEF TypeOK
<1>4. /\ file' \in [inode : Nat, first : 1..(MaxLines + 1), size : Nat, cut : BOOLEAN]
      /\ file'.first = written + 1 /\ file'.size = 0
  <2>1. CASE file' = [inode |-> file.inode + 1, first |-> written + 1, size |-> 0, cut |-> FALSE]
    BY <1>3, <2>1
  <2>2. CASE file' = [file EXCEPT !.first = written + 1, !.size = 0,
                                  !.cut = tail.inode = file.inode /\ Seen > 0]
    <3> DEFINE cut == tail.inode = file.inode /\ Seen > 0
    <3>1. cut \in BOOLEAN
      OBVIOUS
    <3>2. file' = [file EXCEPT !.first = written + 1, !.size = 0, !.cut = cut]
      BY <2>2
    <3> HIDE DEF cut
    <3>3. written + 1 \in 1..(MaxLines + 1)
      BY <1>3
    <3>. QED
      BY <1>3, <3>1, <3>2, <3>3
  <2>. QED
    BY <2>1, <2>2 DEF Rotate
<1>5. faults' \in 0..MaxFaults
  BY <1>2, <1>3 DEF Fault
<1>6. TypeOK'
  BY <1>1, <1>2, <1>4, <1>5 DEF TypeOK
<1>7. FileInv'
  BY <1>1, <1>2, <1>3, <1>4 DEF FileInv
<1>8. LineInv'
  <2>1. file.size % 2 = 0
    BY DEF Rotate
  <2>. QED
    BY <1>1, <1>2, <1>3, <1>4, <2>1 DEF LineInv, Present
<1>. QED
  BY <1>2, <1>6, <1>7, <1>8, RestUnchanged DEF LogInv

(***************************************************************************)
(* Reading and storing                                                     *)
(***************************************************************************)
LEMMA CollectKeeps ==
  ASSUME LogInv, Collect
  PROVE  LogInv'
<1> USE LogTailAssumption
<1>1. TypeOK /\ FileInv /\ LineInv /\ LockInv /\ BanInv /\ JudgeInv /\ OneBanOneEvent /\ CountInv
  BY DEF LogInv
<1>2. /\ up /\ tail' = Remembered /\ file' = [file EXCEPT !.cut = FALSE]
      /\ batch' = {p \in Read : "event" \in Sight(p)} /\ judged' = "now"
      /\ spoiled' = spoiled \union {p.line : p \in {q \in Read : q.part # "whole"}}
      /\ UNCHANGED <<written, ban, halves, effected, stored, counted, merged, forgotten,
                     act, acted, lock, up, maintained, faults>>
  BY DEF Collect, rowvars, actvars
<1>3. \A p \in Read : p \in Pieces /\ Present(p) /\ p.line \in Lines
  BY <1>1, ReadPresent DEF Pieces
<1>4. tail' \in [offset : Nat, inode : Nat, size : Nat]
  <2>1. Until \in Nat /\ file.inode \in Nat /\ file.size \in Nat
    BY <1>1, UntilType DEF TypeOK
  <2>. QED
    BY <1>2, <2>1 DEF Remembered
<1>5. /\ file' \in [inode : Nat, first : 1..(MaxLines + 1), size : Nat, cut : BOOLEAN]
      /\ file'.first = file.first /\ file'.size = file.size
  BY <1>1, <1>2 DEF TypeOK
<1>6. batch' \subseteq Pieces /\ spoiled' \in SUBSET Lines
  BY <1>1, <1>2, <1>3 DEF TypeOK
<1>7. TypeOK'
  BY <1>1, <1>2, <1>4, <1>5, <1>6 DEF TypeOK
<1>8. FileInv' /\ LineInv'
  BY <1>1, <1>2, <1>3, <1>5 DEF FileInv, LineInv, Present
<1>9. LockInv' /\ BanInv'
  BY <1>1, <1>2 DEF LockInv, BanInv, IsBan
<1>10. JudgeInv' /\ OneBanOneEvent' /\ CountInv'
  BY <1>1, <1>2 DEF JudgeInv, OneBanOneEvent, CountInv, IsBan, Sight
<1>. QED
  BY <1>7, <1>8, <1>9, <1>10 DEF LogInv

LEMMA JudgeKeeps ==
  ASSUME LogInv, Judge
  PROVE  LogInv'
<1>1. TypeOK /\ FileInv /\ LineInv /\ LockInv /\ BanInv /\ JudgeInv /\ OneBanOneEvent /\ CountInv
  BY DEF LogInv
<1>2. /\ batch # {} /\ judged = "wait"
      /\ judged' = IF Duplicate(stored, Foremost) THEN "dup" ELSE "new"
      /\ UNCHANGED <<written, ban, halves, file, effected, tail, batch, stored, counted, merged, forgotten,
                     spoiled, act, acted, lock, up, maintained, faults>>
  BY DEF Judge, logvars, rowvars, actvars
<1>3. TypeOK'
  BY <1>1, <1>2 DEF TypeOK
<1>4. FileInv' /\ LineInv' /\ LockInv'
  BY <1>1, <1>2 DEF FileInv, LineInv, LockInv, Present
<1>5. BanInv'
  BY <1>1, <1>2 DEF BanInv, IsBan
<1>6. JudgeInv'
  <2>1. Foremost' = Foremost
    BY <1>2 DEF Foremost
  <2> SUFFICES ASSUME judged' = "new", Foremost \in batch
               PROVE  stored[Foremost] = 0 /\ Unrecorded(Foremost)
    BY <1>2, <2>1 DEF JudgeInv, Unrecorded, IsBan, Sight
  <2>2. ~Duplicate(stored, Foremost) /\ Foremost \in Pieces
    BY <1>1, <1>2 DEF TypeOK
  <2>. QED
    BY <2>2, NoDuplicate
<1>7. OneBanOneEvent' /\ CountInv'
  BY <1>1, <1>2 DEF OneBanOneEvent, CountInv, IsBan, Sight
<1>. QED
  BY <1>3, <1>4, <1>5, <1>6, <1>7 DEF LogInv

LEMMA StoreChunkKeeps ==
  ASSUME LogInv, StoreChunk
  PROVE  LogInv'
<1> USE LogTailAssumption
<1>1. TypeOK /\ FileInv /\ LineInv /\ LockInv /\ BanInv /\ JudgeInv /\ OneBanOneEvent /\ CountInv
  BY DEF LogInv
<1>2. /\ batch # {} /\ lock = 0 /\ batch' = batch \ NextChunk /\ judged' = "wait"
      /\ UNCHANGED <<written, ban, halves, file, effected, tail, forgotten, act, acted, lock, up, maintained>>
  BY DEF StoreChunk, logvars, actvars
<1>3. PICK bad \in {{}} \union {{p} : p \in NextChunk} :
        LET good == NextChunk \ bad
            new == NewOf(good)
        IN  /\ IF bad = {} THEN UNCHANGED faults ELSE Fault
            /\ stored' = [p \in Pieces |-> IF p \in new THEN stored[p] + 1 ELSE stored[p]]
            /\ counted' = [p \in Pieces |-> IF p \in new THEN counted[p] + 1 ELSE counted[p]]
            /\ merged' = merged \union (good \ new)
            /\ spoiled' = spoiled \union {p.line : p \in bad}
  BY DEF StoreChunk
<1> DEFINE good == NextChunk \ bad
           new == NewOf(good)
<1>4. /\ IF bad = {} THEN UNCHANGED faults ELSE Fault
      /\ stored' = [p \in Pieces |-> IF p \in new THEN stored[p] + 1 ELSE stored[p]]
      /\ counted' = [p \in Pieces |-> IF p \in new THEN counted[p] + 1 ELSE counted[p]]
      /\ merged' = merged \union (good \ new)
      /\ spoiled' = spoiled \union {p.line : p \in bad}
  BY <1>3
<1>5. good \subseteq batch /\ bad \subseteq batch /\ batch \subseteq Pieces
  BY <1>1, <1>3, ChunkInBatch DEF TypeOK
<1>6. \A p \in new : p \in batch /\ p \in Pieces /\ stored[p] = 0 /\ Unrecorded(p)
  BY <1>5, NewIsNew
<1> HIDE DEF good, new
<1>7. up /\ maintained
  BY <1>1, <1>2 DEF CountInv
<1>8. stored \in [Pieces -> 0..2] /\ counted \in [Pieces -> Nat]
  BY <1>1 DEF TypeOK
<1>9. \A p \in Pieces : /\ p \in new => stored'[p] = 1 /\ counted'[p] = counted[p] + 1
                        /\ p \notin new => stored'[p] = stored[p] /\ counted'[p] = counted[p]
  BY <1>4, <1>6, <1>8
<1>10. stored' \in [Pieces -> 0..2]
  <2>1. \A p \in Pieces : (IF p \in new THEN stored[p] + 1 ELSE stored[p]) \in 0..2
    BY <1>6, <1>8
  <2>. QED
    BY <1>4, <2>1
<1>11. counted' \in [Pieces -> Nat]
  <2>1. \A p \in Pieces : (IF p \in new THEN counted[p] + 1 ELSE counted[p]) \in Nat
    BY <1>8
  <2>. QED
    BY <1>4, <2>1
<1>12. faults' \in 0..MaxFaults
  <2>1. faults \in 0..MaxFaults /\ MaxFaults \in Nat
    BY <1>1 DEF TypeOK
  <2>. QED
    BY <1>4, <2>1 DEF Fault
<1>13. merged' \in SUBSET Pieces /\ spoiled' \in SUBSET Lines /\ batch' \in SUBSET Pieces
  BY <1>1, <1>2, <1>4, <1>5 DEF TypeOK, Pieces
<1>14. TypeOK'
  BY <1>1, <1>2, <1>10, <1>11, <1>12, <1>13 DEF TypeOK
<1>15. FileInv' /\ LockInv'
  BY <1>1, <1>2 DEF FileInv, LockInv
<1>16. LineInv'
  BY <1>1, <1>2, <1>6, <1>9 DEF LineInv, Present
<1>17. BanInv'
  <2>1. \A p \in Pieces : IsBan(p) => act[ban[p.line]] = "over"
    BY <1>2, UnlockedOver DEF IsBan, Pieces
  <2>. QED
    BY <1>1, <1>2, <2>1 DEF BanInv, IsBan
<1>18. JudgeInv'
  BY <1>2 DEF JudgeInv
<1>19. OneBanOneEvent'
  <2>1. \A p \in Pieces : Sight(p)' = Sight(p)
    BY <1>2 DEF Sight
  <2>. QED
    BY <1>1, <1>2, <1>6, <1>9, <2>1 DEF OneBanOneEvent, IsBan, Unrecorded
<1>20. CountInv'
  <2>1. \A p \in Pieces \ forgotten : stored'[p] <= 1 /\ counted'[p] = stored'[p]
    <3> SUFFICES ASSUME NEW p \in Pieces \ forgotten
                 PROVE  stored'[p] <= 1 /\ counted'[p] = stored'[p]
      OBVIOUS
    <3>1. stored[p] <= 1 /\ counted[p] = stored[p]
      BY <1>1, <1>7 DEF CountInv
    <3>. QED
      BY <1>6, <1>9, <3>1
  <2>. QED
    BY <1>2, <1>7, <2>1 DEF CountInv
<1>. QED
  BY <1>14, <1>15, <1>16, <1>17, <1>18, <1>19, <1>20 DEF LogInv

LEMMA LoseChunkKeeps ==
  ASSUME LogInv, LoseChunk
  PROVE  LogInv'
<1>1. TypeOK /\ FileInv /\ LineInv /\ LockInv /\ BanInv /\ JudgeInv /\ OneBanOneEvent /\ CountInv
  BY DEF LogInv
<1>2. /\ Fault /\ batch' = {} /\ judged' = "now"
      /\ spoiled' = spoiled \union {p.line : p \in batch}
      /\ UNCHANGED <<written, ban, halves, file, effected, tail, stored, counted, merged, forgotten,
                     act, acted, lock, up, maintained>>
  BY DEF LoseChunk, logvars, rowvars, actvars
<1>3. faults' \in 0..MaxFaults
  BY <1>1, <1>2, LogTailAssumption DEF TypeOK, Fault
<1>4. TypeOK'
  BY <1>1, <1>2, <1>3 DEF TypeOK, Pieces
<1>5. FileInv' /\ LineInv' /\ LockInv'
  BY <1>1, <1>2 DEF FileInv, LineInv, LockInv, Present
<1>6. BanInv' /\ JudgeInv' /\ OneBanOneEvent' /\ CountInv'
  BY <1>1, <1>2 DEF BanInv, JudgeInv, OneBanOneEvent, CountInv, IsBan, Sight
<1>. QED
  BY <1>4, <1>5, <1>6 DEF LogInv

(***************************************************************************)
(* Manual bans                                                             *)
(***************************************************************************)
LEMMA BeginBanKeeps ==
  ASSUME LogInv, NEW a \in Acts, BeginBan(a)
  PROVE  LogInv'
<1>1. TypeOK /\ FileInv /\ LineInv /\ LockInv /\ BanInv /\ JudgeInv /\ OneBanOneEvent /\ CountInv
  BY DEF LogInv
<1>2. /\ lock = 0 /\ act[a] = "none" /\ lock' = a /\ act' = [act EXCEPT ![a] = "open"]
      /\ UNCHANGED <<written, ban, halves, file, effected, tail, batch, judged, stored, counted, merged,
                     forgotten, spoiled, acted, up, maintained, faults>>
  BY DEF BeginBan, Locked, logvars, ctlvars, rowvars
<1>3. act \in [Acts -> {"none", "open", "done", "failed", "over"}] /\ a # 0
  BY <1>1, LogTailAssumption DEF TypeOK
<1>4. \A b \in Acts : act'[b] = IF b = a THEN "open" ELSE act[b]
  BY <1>2, <1>3
<1>5. TypeOK'
  BY <1>1, <1>2, <1>3 DEF TypeOK
<1>6. FileInv' /\ LineInv'
  BY <1>1, <1>2 DEF FileInv, LineInv, Present
<1>7. LockInv'
  <2>1. \A b \in Acts : act[b] \notin {"open", "done", "failed"}
    BY <1>1, <1>2, LogTailAssumption DEF LockInv
  <2>. QED
    BY <1>2, <1>4, <2>1 DEF LockInv
<1>8. BanInv'
  <2>1. effected \subseteq Acts
    BY <1>1 DEF TypeOK
  <2>. QED
    BY <1>1, <1>2, <1>4, <2>1 DEF BanInv, IsBan, Pieces
<1>9. JudgeInv' /\ OneBanOneEvent' /\ CountInv'
  <2>1. Foremost' = Foremost
    BY <1>2 DEF Foremost
  <2>. QED
    BY <1>1, <1>2, <2>1 DEF JudgeInv, Unrecorded, OneBanOneEvent, CountInv, IsBan, Sight
<1>. QED
  BY <1>5, <1>6, <1>7, <1>8, <1>9 DEF LogInv

LEMMA ExecuteBanKeeps ==
  ASSUME LogInv, NEW a \in Acts, ExecuteBan(a)
  PROVE  LogInv'
<1>1. TypeOK /\ FileInv /\ LineInv /\ LockInv /\ BanInv /\ JudgeInv /\ OneBanOneEvent /\ CountInv
  BY DEF LogInv
<1>2. /\ act[a] = "open"
      /\ UNCHANGED <<written, ban, halves, file, tail, batch, judged, stored, counted, merged, forgotten,
                     spoiled, acted, lock, up, maintained, faults>>
  BY DEF ExecuteBan, ctlvars, rowvars
<1>3. PICK answer \in BOOLEAN :
        /\ effected' \subseteq effected \union {a}
        /\ act' = [act EXCEPT ![a] = IF answer THEN "done" ELSE "failed"]
  BY DEF ExecuteBan
<1>4. act \in [Acts -> {"none", "open", "done", "failed", "over"}] /\ effected \subseteq Acts
  BY <1>1 DEF TypeOK
<1>5. /\ act'[a] \in {"done", "failed"}
      /\ \A b \in Acts \ {a} : act'[b] = act[b]
      /\ act' \in [Acts -> {"none", "open", "done", "failed", "over"}]
  BY <1>3, <1>4
<1>6. TypeOK'
  BY <1>1, <1>2, <1>3, <1>4, <1>5 DEF TypeOK
<1>7. FileInv' /\ LineInv'
  BY <1>1, <1>2 DEF FileInv, LineInv, Present
<1>8. LockInv'
  BY <1>1, <1>2, <1>5 DEF LockInv
<1>9. BanInv'
  <2>1. \A b \in effected' : act'[b] \in {"done", "failed", "over"}
    BY <1>1, <1>3, <1>4, <1>5 DEF BanInv
  <2>2. \A k \in Lines : ban[k] # 0 => ban[k] \in Acts
    BY <1>1, <1>2 DEF BanInv
  <2>. QED
    BY <1>1, <1>2, <1>5, <2>1, <2>2 DEF BanInv, IsBan, Pieces
<1>10. JudgeInv' /\ OneBanOneEvent' /\ CountInv'
  <2>1. Foremost' = Foremost
    BY <1>2 DEF Foremost
  <2>. QED
    BY <1>1, <1>2, <2>1 DEF JudgeInv, Unrecorded, OneBanOneEvent, CountInv, IsBan, Sight
<1>. QED
  BY <1>6, <1>7, <1>8, <1>9, <1>10 DEF LogInv

LEMMA RecordBanKeeps ==
  ASSUME LogInv, NEW a \in Acts, RecordBan(a)
  PROVE  LogInv'
<1>1. TypeOK /\ FileInv /\ LineInv /\ LockInv /\ BanInv /\ JudgeInv /\ OneBanOneEvent /\ CountInv
  BY DEF LogInv
<1>2. /\ act[a] \in {"done", "failed"} /\ lock' = 0 /\ act' = [act EXCEPT ![a] = "over"]
      /\ UNCHANGED <<written, ban, halves, file, effected, tail, batch, judged, stored, counted, merged,
                     forgotten, spoiled, up, maintained>>
  BY DEF RecordBan, logvars, ctlvars, rowvars
<1>3. /\ act \in [Acts -> {"none", "open", "done", "failed", "over"}] /\ effected \subseteq Acts
      /\ acted \in [Acts -> {"none", "ban", "failed"}] /\ faults \in 0..MaxFaults
  BY <1>1 DEF TypeOK
<1>4. /\ \A b \in Acts : act'[b] = IF b = a THEN "over" ELSE act[b]
      /\ act' \in [Acts -> {"none", "open", "done", "failed", "over"}]
  BY <1>2, <1>3
<1>5. /\ acted' \in [Acts -> {"none", "ban", "failed"}] /\ faults' \in 0..MaxFaults
      /\ \A b \in Acts \ {a} : acted'[b] = acted[b]
  <2>1. CASE Fault /\ UNCHANGED acted
    BY <1>3, <2>1, LogTailAssumption DEF Fault
  <2>2. CASE /\ acted' = [acted EXCEPT ![a] = IF act[a] = "done" THEN "ban" ELSE "failed"]
             /\ UNCHANGED faults
    BY <1>3, <2>2
  <2>. QED
    BY <2>1, <2>2 DEF RecordBan
<1>6. TypeOK'
  BY <1>1, <1>2, <1>4, <1>5 DEF TypeOK
<1>7. FileInv' /\ LineInv'
  BY <1>1, <1>2 DEF FileInv, LineInv, Present
<1>8. LockInv'
  <2>1. lock = a
    BY <1>1, <1>2 DEF LockInv
  <2>2. \A b \in Acts : act'[b] \notin {"open", "done", "failed"}
    BY <1>1, <1>4, <2>1 DEF LockInv
  <2>. QED
    BY <2>2 DEF LockInv
<1>9. BanInv'
  BY <1>1, <1>2, <1>3, <1>4 DEF BanInv, IsBan, Pieces
\* What has an event, or was looked up, is of an action that was over before.
<1>10. JudgeInv'
  <2>1. Foremost' = Foremost
    BY <1>2 DEF Foremost
  <2> SUFFICES ASSUME judged = "new", Foremost \in batch
               PROVE  stored[Foremost] = 0 /\ Unrecorded(Foremost)'
    BY <1>2, <2>1 DEF JudgeInv, Unrecorded, IsBan, Sight
  <2>2. Foremost \in Pieces /\ Foremost.line \in Lines
    BY <1>1 DEF TypeOK, Pieces
  <2>3. IsBan(Foremost) => ban[Foremost.line] \in Acts /\ act[ban[Foremost.line]] = "over"
    BY <1>1, <2>2 DEF BanInv, IsBan
  <2>4. IsBan(Foremost) => acted'[ban[Foremost.line]] = acted[ban[Foremost.line]]
    BY <1>2, <1>5, <2>3
  <2>5. stored[Foremost] = 0 /\ Unrecorded(Foremost)
    BY <1>1 DEF JudgeInv
  <2>. QED
    BY <1>2, <2>1, <2>4, <2>5 DEF Unrecorded, IsBan, Sight
<1>11. OneBanOneEvent'
  <2> SUFFICES ASSUME NEW p \in Pieces, stored[p] > 0, IsBan(p)
               PROVE  /\ "action" \in Sight(p) => acted'[ban[p.line]] = "none"
                      /\ "address" \in Sight(p) => acted'[ban[p.line]] # "ban"
    BY <1>2 DEF OneBanOneEvent, IsBan, Sight
  <2>1. ban[p.line] \in Acts /\ act[ban[p.line]] = "over"
    BY <1>1 DEF BanInv, IsBan, Pieces
  <2>. QED
    BY <1>1, <1>2, <1>5, <2>1 DEF OneBanOneEvent
<1>12. CountInv'
  BY <1>1, <1>2 DEF CountInv
<1>. QED
  BY <1>6, <1>7, <1>8, <1>9, <1>10, <1>11, <1>12 DEF LogInv

(***************************************************************************)
(* Retention, crash and start                                              *)
(***************************************************************************)
LEMMA ForgetKeeps ==
  ASSUME LogInv, Forget
  PROVE  LogInv'
<1>1. TypeOK /\ FileInv /\ LineInv /\ LockInv /\ BanInv /\ JudgeInv /\ OneBanOneEvent /\ CountInv
  BY DEF LogInv
<1>2. /\ up /\ forgotten' = forgotten \union Old
      /\ stored' = [p \in Pieces |-> IF p \in Old THEN 0 ELSE stored[p]]
      /\ UNCHANGED <<written, ban, halves, file, effected, tail, batch, judged, counted, merged,
                     spoiled, act, acted, lock, up, maintained, faults>>
  BY DEF Forget, logvars, ctlvars, actvars
<1>3. stored \in [Pieces -> 0..2] /\ Old \subseteq Pieces
  BY <1>1 DEF TypeOK, Old
<1>4. \A p \in Pieces : /\ p \in Old => stored'[p] = 0
                        /\ p \notin Old => stored'[p] = stored[p]
  BY <1>2
<1>5. stored' \in [Pieces -> 0..2] /\ forgotten' \in SUBSET Pieces
  BY <1>1, <1>2, <1>3 DEF TypeOK
<1>6. TypeOK'
  BY <1>1, <1>2, <1>5 DEF TypeOK
<1>7. FileInv' /\ LineInv' /\ LockInv'
  BY <1>1, <1>2, <1>4 DEF FileInv, LineInv, LockInv, Present
<1>8. BanInv'
  BY <1>1, <1>2, <1>4 DEF BanInv, IsBan
<1>9. JudgeInv'
  <2>1. Foremost' = Foremost
    BY <1>2 DEF Foremost
  <2>2. Foremost \in batch => Foremost \in Pieces
    BY <1>1 DEF TypeOK
  <2>. QED
    BY <1>1, <1>2, <1>4, <2>1, <2>2 DEF JudgeInv, Unrecorded, IsBan, Sight
<1>10. OneBanOneEvent'
  <2>1. \A p \in Pieces : stored'[p] > 0 => stored[p] > 0
    BY <1>4
  <2>2. \A p \in Pieces : Sight(p)' = Sight(p)
    BY <1>2 DEF Sight
  <2>. QED
    BY <1>1, <1>2, <2>1, <2>2 DEF OneBanOneEvent, IsBan
<1>11. CountInv'
  BY <1>1, <1>2, <1>4 DEF CountInv
<1>. QED
  BY <1>6, <1>7, <1>8, <1>9, <1>10, <1>11 DEF LogInv

LEMMA CrashKeeps ==
  ASSUME LogInv, Crash
  PROVE  LogInv'
<1>1. TypeOK /\ FileInv /\ LineInv /\ LockInv /\ BanInv /\ JudgeInv /\ OneBanOneEvent /\ CountInv
  BY DEF LogInv
<1>2. /\ up /\ Fault /\ up' = FALSE /\ tail' = NoTail /\ batch' = {} /\ judged' = "now"
      /\ file' = [file EXCEPT !.cut = FALSE] /\ lock' = 0 /\ spoiled' = {}
      /\ act' = [a \in Acts |-> IF act[a] = "none" THEN "none" ELSE "over"]
      /\ UNCHANGED <<written, ban, halves, effected, stored, counted, merged, forgotten, acted, maintained>>
  BY DEF Crash, rowvars
<1>3. /\ file' \in [inode : Nat, first : 1..(MaxLines + 1), size : Nat, cut : BOOLEAN]
      /\ file'.first = file.first /\ file'.size = file.size
  BY <1>1, <1>2 DEF TypeOK
<1>4. faults' \in 0..MaxFaults
  BY <1>1, <1>2, LogTailAssumption DEF TypeOK, Fault
<1>5. tail' \in [offset : Nat, inode : Nat, size : Nat]
  BY <1>2 DEF NoTail
<1>6. \A a \in Acts : act'[a] = IF act[a] = "none" THEN "none" ELSE "over"
  BY <1>2
<1>7. act' \in [Acts -> {"none", "open", "done", "failed", "over"}]
  BY <1>2
<1>8. TypeOK'
  <2>1. /\ batch' \subseteq Pieces /\ judged' \in {"now", "wait", "new", "dup"}
        /\ spoiled' \in SUBSET Lines /\ lock' \in Acts \union {0} /\ up' \in BOOLEAN
    BY <1>2
  <2>2. /\ written' \in 0..MaxLines /\ ban' \in [Lines -> Acts \union {0}]
        /\ halves' \in [Lines -> Halves]
        /\ stored' \in [Pieces -> 0..2] /\ counted' \in [Pieces -> Nat]
        /\ merged' \in SUBSET Pieces /\ forgotten' \in SUBSET Pieces /\ effected' \subseteq Acts
        /\ acted' \in [Acts -> {"none", "ban", "failed"}] /\ maintained' \in BOOLEAN
    BY <1>1, <1>2 DEF TypeOK, Halves
  <2>. QED
    BY <1>3, <1>4, <1>5, <1>7, <2>1, <2>2 DEF TypeOK, Halves
<1>9. FileInv' /\ LineInv' /\ LockInv'
  BY <1>1, <1>2, <1>3, <1>6 DEF FileInv, LineInv, LockInv, Present
<1>10. BanInv'
  <2>1. effected \subseteq Acts
    BY <1>1 DEF TypeOK
  <2>. QED
    BY <1>1, <1>2, <1>6, <2>1 DEF BanInv, IsBan, Pieces
<1>11. JudgeInv' /\ OneBanOneEvent' /\ CountInv'
  BY <1>1, <1>2 DEF JudgeInv, OneBanOneEvent, CountInv, IsBan, Sight
<1>. QED
  BY <1>8, <1>9, <1>10, <1>11 DEF LogInv

LEMMA StartKeeps ==
  ASSUME LogInv, Start
  PROVE  LogInv'
<1>1. TypeOK /\ FileInv /\ LineInv /\ LockInv /\ BanInv /\ JudgeInv /\ OneBanOneEvent /\ CountInv
  BY DEF LogInv
<1>2. /\ ~up /\ up' = TRUE /\ maintained' = TRUE
      /\ IF maintained THEN UNCHANGED <<stored, counted>>
         ELSE stored' = Unique /\ counted' = Rebuilt
      /\ UNCHANGED <<written, ban, halves, file, effected, tail, batch, judged, merged, forgotten, spoiled,
                     act, acted, lock, faults>>
  BY DEF Start, logvars, ctlvars, actvars
<1>3. batch = {} /\ stored \in [Pieces -> 0..2] /\ counted \in [Pieces -> Nat]
  BY <1>1, <1>2 DEF CountInv, TypeOK
\* Before the clean-up there are duplicates, so that the rollups are rebuilt.
<1>4. ~maintained => Rebuilt = Unique
  <2> SUFFICES ASSUME ~maintained PROVE Unique # stored
    BY DEF Rebuilt
  <2>1. PICK p \in Pieces : stored[p] > 1
    BY <1>1 DEF CountInv
  <2>2. Unique[p] = 1 /\ stored[p] # 1
    BY <1>3, <2>1 DEF Unique
  <2>. QED
    BY <2>2
<1>5. \A p \in Pieces : /\ Unique[p] \in 0..1 /\ (Unique[p] > 0 => stored[p] > 0)
  BY <1>3 DEF Unique
<1>6. Unique \in [Pieces -> 0..2] /\ Unique \in [Pieces -> Nat]
  <2>1. Unique = [p \in Pieces |-> Unique[p]]
    BY DEF Unique
  <2>. QED
    BY <1>5, <2>1
<1>7. stored' \in [Pieces -> 0..2] /\ counted' \in [Pieces -> Nat]
  BY <1>2, <1>3, <1>4, <1>6
<1>8. \A p \in Pieces : stored'[p] > 0 => stored[p] > 0
  BY <1>2, <1>5
<1>9. TypeOK'
  BY <1>1, <1>2, <1>7 DEF TypeOK
<1>10. FileInv' /\ LineInv' /\ LockInv'
  BY <1>1, <1>2, <1>8 DEF FileInv, LineInv, LockInv, Present
<1>11. BanInv' /\ OneBanOneEvent'
  BY <1>1, <1>2, <1>8 DEF BanInv, OneBanOneEvent, IsBan, Sight
<1>12. JudgeInv'
  BY <1>2, <1>3 DEF JudgeInv
<1>13. CountInv'
  <2>1. CASE maintained
    BY <1>1, <1>2, <2>1 DEF CountInv
  <2>2. CASE ~maintained
    <3>1. stored' = Unique /\ counted' = Unique
      BY <1>2, <1>4, <2>2
    <3>2. \A p \in Pieces : stored'[p] <= 1 /\ counted'[p] = stored'[p]
      BY <1>5, <3>1
    <3>. QED
      BY <1>2, <3>2 DEF CountInv
  <2>. QED
    BY <2>1, <2>2
<1>. QED
  BY <1>9, <1>10, <1>11, <1>12, <1>13 DEF LogInv

(***************************************************************************)
(* The theorems                                                            *)
(***************************************************************************)
LEMMA StutterKeeps ==
  ASSUME LogInv, UNCHANGED LTvars
  PROVE  LogInv'
<1>1. /\ UNCHANGED <<written, ban, halves, file, effected, tail, batch, judged, stored, counted, merged,
                     forgotten, act, acted, lock, up, maintained, faults, spoiled>>
  BY DEF LTvars, logvars, ctlvars, rowvars, actvars
<1>2. TypeOK' /\ FileInv' /\ LineInv'
  BY <1>1 DEF LogInv, TypeOK, FileInv, LineInv, Present
<1>. QED
  BY <1>1, <1>2, RestUnchanged DEF LogInv

LEMMA StepKeeps == LogInv /\ [Next]_LTvars => LogInv'
<1> SUFFICES ASSUME LogInv, [Next]_LTvars PROVE LogInv'
  OBVIOUS
<1>1. ASSUME NEW a \in Acts \union {0}, Write(a) PROVE LogInv'
  BY <1>1, WriteKeeps
<1>2. ASSUME NEW a \in Acts, BeginBan(a) \/ ExecuteBan(a) \/ RecordBan(a) PROVE LogInv'
  BY <1>2, BeginBanKeeps, ExecuteBanKeeps, RecordBanKeeps
<1>3. CASE WriteRest \/ Rotate \/ Collect \/ StoreChunk
  BY <1>3, WriteRestKeeps, RotateKeeps, CollectKeeps, StoreChunkKeeps
<1>4. CASE Judge \/ LoseChunk \/ Forget \/ Crash \/ Start
  BY <1>4, JudgeKeeps, LoseChunkKeeps, ForgetKeeps, CrashKeeps, StartKeeps
<1>5. CASE UNCHANGED LTvars
  BY <1>5, StutterKeeps
<1>. QED
  BY <1>1, <1>2, <1>3, <1>4, <1>5 DEF Next

\* In every state of the datasource: its types, the shape of the log, that a
\* manual ban under way holds the write lock, that a look-up made before the
\* lock still holds under it, and that the rollups count what is stored.
THEOREM LogInvariance == Spec => []LogInv
<1>. QED
  BY LogInitInv, StepKeeps, PTL DEF Spec

\* store_event and the duplicate rules keep one event for one piece of the
\* log, a line or a half of it that was read by itself, and the rollups one
\* count for one event, however often it is read again: for every number of
\* lines, chunk, batch and manual bans.
THEOREM StoredOnce == Spec => []IngestedOnce
<1>1. LogInv => IngestedOnce
  BY DEF LogInv, CountInv, IngestedOnce
<1>. QED
  BY <1>1, LogInvariance, PTL

\* A manual ban that is recorded by its action is never recorded once more
\* from a piece of the log that shows its id or its address, for every
\* interleaving of the datasource's tick with the requests: the write lock,
\* which the action holds from its row to its event, orders the two.
THEOREM BanRecordedOnce == Spec => []OneBanOneEvent
<1>1. LogInv => OneBanOneEvent
  BY DEF LogInv
<1>. QED
  BY <1>1, LogInvariance, PTL

-----------------------------------------------------------------------------
(***************************************************************************)
(* The rollups.  The two locks of a compaction pass are nested, and the    *)
(* days that the trend shows are never compacted.                          *)
(***************************************************************************)

\* The fields of a pass; nothing is said of what it counts.
Shaped(r) ==
  r \in [at : {"idle", "compacting", "deleting"}, todo : SUBSET Month, month : Month \cup {NoMonth},
         sum : {r.sum}, late : {r.late}, gone : SUBSET Month, merged : {r.merged}, skipped : {r.skipped}]

Shapes ==
  /\ today \in Day
  /\ arrived \in [Day -> Int] /\ raw \in [Day -> Int] /\ daily \in [Day -> Int]
  /\ writer \in Pass \cup {"nobody"} /\ compactor \in Pass \cup {"nobody"}
  /\ pass = [p \in Pass |-> pass[p]]
  /\ \A p \in Pass : Shaped(pass[p])

\* The months a pass has to read, has read or has deleted.
Claimed(p) == pass[p].todo \cup pass[p].gone \cup ({pass[p].month} \ {NoMonth})

ClaimedAreOld ==
  \A p \in Pass :
    /\ pass[p].at # "compacting" => Claimed(p) = {}
    /\ \A m \in Claimed(p) : m < OldestRetainedMonth

WindowKept ==
  \A d \in Day :
    /\ MonthOf(d) >= OldestRetainedMonth => daily[d] = arrived[d]
    /\ d >= today - Retention => raw[d] = arrived[d]

RollupsInv == Shapes /\ LocksNested /\ ClaimedAreOld /\ WindowKept

-----------------------------------------------------------------------------
\* Days of a month follow each other.
LEMMA DivMonotonic ==
  ASSUME NEW a \in Int, NEW b \in Int, NEW c \in Nat \ {0}, a <= b
  PROVE  a \div c \in Int /\ b \div c \in Int /\ a \div c <= b \div c
  BY Z3

LEMMA Months ==
  ASSUME RollupsAssumption
  PROVE  /\ Day \subseteq Int /\ Month \subseteq Int /\ \A d \in Day : MonthOf(d) \in Month
         /\ NoMonth \notin Month
<1> USE RollupsAssumption DEF RollupsAssumption
<1>1. Day \subseteq Int /\ 0 \in Int
  BY DEF Day
<1>2. \A d \in Day : MonthOf(d) \in Int /\ 0 \div MonthLength <= MonthOf(d)
  BY DivMonotonic DEF Day, MonthOf
<1>3. 0 \div MonthLength = 0
  BY Z3
<1> QED BY <1>1, <1>2, <1>3 DEF Month, NoMonth

LEMMA OldestInt ==
  ASSUME RollupsAssumption, today \in Int
  PROVE  OldestRetainedMonth \in Int
  BY DivMonotonic DEF RollupsAssumption, OldestRetainedMonth

LEMMA RollupsInitInv ==
  ASSUME RollupsAssumption, RollupsInit
  PROVE  RollupsInv
<1> USE DEF RollupsInit, RollupsAssumption
<1>1. Shaped(NoPass)
  BY DEF Shaped, NoPass
<1>2. Shapes
  BY <1>1 DEF Shapes, Day, Pass
<1>3. LocksNested
  BY DEF LocksNested, Pass, NoPass
<1>4. ClaimedAreOld
  BY DEF ClaimedAreOld, Claimed, NoPass
<1>5. WindowKept
  BY DEF WindowKept
<1> QED BY <1>2, <1>3, <1>4, <1>5 DEF RollupsInv

-----------------------------------------------------------------------------
LEMMA NextDayInv ==
  ASSUME RollupsAssumption, RollupsInv, NextDay
  PROVE  RollupsInv'
<1> USE DEF NextDay
<1>1. today \in Int /\ today' \in Int /\ today <= today' /\ today' \in Day
  BY DEF RollupsInv, Shapes, Day, RollupsAssumption
<1>2. OldestRetainedMonth <= OldestRetainedMonth' /\ OldestRetainedMonth \in Int /\ OldestRetainedMonth' \in Int
  BY <1>1, DivMonotonic DEF OldestRetainedMonth, RollupsAssumption
<1>3. Shapes'
  BY <1>1 DEF RollupsInv, Shapes, Shaped
<1>4. LocksNested'
  BY DEF RollupsInv, LocksNested
<1>5. ClaimedAreOld'
  <2> SUFFICES ASSUME NEW p \in Pass
               PROVE  /\ pass[p].at # "compacting" => Claimed(p) = {}
                      /\ \A m \in Claimed(p) : m < OldestRetainedMonth'
    BY DEF ClaimedAreOld, Claimed
  <2>1. Claimed(p) \subseteq Int
    BY Months DEF RollupsInv, Shapes, Shaped, Claimed
  <2> QED BY <2>1, <1>2 DEF RollupsInv, ClaimedAreOld
<1>6. WindowKept'
  BY <1>1, <1>2, Months DEF RollupsInv, WindowKept, RollupsAssumption, MonthOf
<1> QED BY <1>3, <1>4, <1>5, <1>6 DEF RollupsInv

\* An event touches the counters of its day alike, and no pass but by what it counts.
LEMMA StoreEventInv ==
  ASSUME RollupsAssumption, RollupsInv, NEW e \in Day, StoreEvent(e)
  PROVE  RollupsInv'
<1> USE DEF StoreEvent
<1>1. \A p \in Pass : /\ Shaped(pass'[p]) /\ pass'[p].at = pass[p].at /\ pass'[p].todo = pass[p].todo
                      /\ pass'[p].month = pass[p].month /\ pass'[p].gone = pass[p].gone
  BY DEF RollupsInv, Shapes, Shaped
<1>2. Shapes'
  <2>1. pass' = [p \in Pass |-> pass'[p]] /\ \A p \in Pass : Shaped(pass[p])'
    BY <1>1 DEF Shaped
  <2>2. arrived' \in [Day -> Int] /\ raw' \in [Day -> Int] /\ daily' \in [Day -> Int]
    BY DEF RollupsInv, Shapes
  <2> QED BY <2>1, <2>2 DEF RollupsInv, Shapes
<1>3. LocksNested'
  BY <1>1 DEF RollupsInv, LocksNested
<1>4. ClaimedAreOld'
  BY <1>1 DEF RollupsInv, ClaimedAreOld, Claimed, OldestRetainedMonth
<1>5. WindowKept'
  <2>1. arrived \in [Day -> Int] /\ raw \in [Day -> Int] /\ daily \in [Day -> Int]
    BY DEF RollupsInv, Shapes
  <2> QED BY <2>1 DEF RollupsInv, WindowKept, OldestRetainedMonth
<1> QED BY <1>2, <1>3, <1>4, <1>5 DEF RollupsInv

LEMMA StartPassInv ==
  ASSUME RollupsAssumption, RollupsInv, NEW p \in Pass, StartPass(p)
  PROVE  RollupsInv'
<1> DEFINE started == [NoPass EXCEPT !.at = "compacting", !.todo = Compactable]
<1> USE DEF StartPass
<1>1. Shaped(started) /\ started.at = "compacting" /\ started.todo = Compactable
        /\ started.month = NoMonth /\ started.gone = {}
  BY DEF Shaped, NoPass, Compactable
<1>2. pass' = [pass EXCEPT ![p] = started]
  OBVIOUS
<1> HIDE DEF started
<1>3. pass'[p] = started /\ \A q \in Pass \ {p} : pass'[q] = pass[q]
  BY <1>2 DEF RollupsInv, Shapes
<1>4. Shapes'
  BY <1>1, <1>2, <1>3 DEF RollupsInv, Shapes, Shaped
<1>5. LocksNested'
  BY <1>1, <1>3 DEF RollupsInv, LocksNested, CompactionLock, Pass, Shapes
<1>6. ClaimedAreOld'
  <2> SUFFICES ASSUME NEW q \in Pass
               PROVE  /\ pass'[q].at # "compacting" => Claimed(q)' = {}
                      /\ \A m \in Claimed(q)' : m < OldestRetainedMonth
    BY DEF ClaimedAreOld, OldestRetainedMonth
  <2>1. CASE q = p
    BY <2>1, <1>1, <1>3 DEF Claimed, Compactable
  <2>2. CASE q # p
    BY <2>2, <1>3 DEF RollupsInv, ClaimedAreOld, Claimed
  <2> QED BY <2>1, <2>2
<1>7. WindowKept'
  BY DEF RollupsInv, WindowKept, OldestRetainedMonth
<1> QED BY <1>4, <1>5, <1>6, <1>7 DEF RollupsInv

\* A step that moves months about within what its pass has claimed.
LEMMA ReadMonthInv ==
  ASSUME RollupsAssumption, RollupsInv, NEW p \in Pass, ReadMonth(p)
  PROVE  RollupsInv'
<1> USE DEF ReadMonth
<1>1. PICK m \in pass[p].todo :
        pass' = [pass EXCEPT ![p] = [pass[p] EXCEPT !.month = m, !.todo = pass[p].todo \ {m},
                                              !.sum = Total(daily, DaysOf(m)), !.late = 0]]
  OBVIOUS
<1>2. Shaped(pass[p]) /\ m \in Month
  BY DEF RollupsInv, Shapes, Shaped
<1>3. /\ Shaped(pass'[p]) /\ pass'[p].at = pass[p].at /\ pass'[p].todo = pass[p].todo \ {m}
      /\ pass'[p].month = m /\ pass'[p].gone = pass[p].gone
      /\ \A q \in Pass \ {p} : pass'[q] = pass[q]
  <2>1. pass = [q \in Pass |-> pass[q]]
    BY DEF RollupsInv, Shapes
  <2> HIDE DEF ReadMonth
  <2>2. /\ pass'[p] = [pass[p] EXCEPT !.month = m, !.todo = pass[p].todo \ {m}, !.sum = Total(daily, DaysOf(m)), !.late = 0]
        /\ \A q \in Pass \ {p} : pass'[q] = pass[q]
    BY <1>1, <2>1
  <2>3. /\ pass'[p].at = pass[p].at /\ pass'[p].todo = pass[p].todo \ {m} /\ pass'[p].month = m
        /\ pass'[p].gone = pass[p].gone
    BY <1>2, <2>2 DEF Shaped
  <2>4. Shaped(pass'[p])
    BY <1>2, <2>2 DEF Shaped
  <2> QED BY <2>2, <2>3, <2>4
<1>4. Shapes'
  <2>1. pass' = [q \in Pass |-> pass'[q]]
    BY <1>1 DEF RollupsInv, Shapes
  <2>2. \A q \in Pass : Shaped(pass[q])
    BY DEF RollupsInv, Shapes
  <2>3. UNCHANGED <<today, arrived, raw, daily, writer, compactor>>
    OBVIOUS
  <2> HIDE DEF ReadMonth
  <2>4. \A q \in Pass : Shaped(pass'[q])
    BY <1>3, <2>2
  <2> QED BY <2>1, <2>3, <2>4 DEF RollupsInv, Shapes, Shaped
<1>5. LocksNested'
  <2>1. writer' = writer /\ compactor' = compactor
    OBVIOUS
  <2>2. \A q \in Pass : pass'[q].at = pass[q].at /\ pass'[q].gone = pass[q].gone
    BY <1>3
  <2> HIDE DEF ReadMonth
  <2> QED BY <2>1, <2>2 DEF RollupsInv, LocksNested, Shapes
<1>6. ClaimedAreOld'
  <2> SUFFICES ASSUME NEW q \in Pass
               PROVE  /\ pass'[q].at # "compacting" => Claimed(q)' = {}
                      /\ \A k \in Claimed(q)' : k < OldestRetainedMonth
    BY DEF ClaimedAreOld, OldestRetainedMonth
  <2>1. CASE q = p
    <3>1. Claimed(p)' \subseteq Claimed(p)
      BY <1>2, <1>3, Months DEF Claimed
    <3> QED BY <2>1, <3>1, <1>3 DEF RollupsInv, ClaimedAreOld
  <2>2. CASE q # p
    BY <2>2, <1>3 DEF RollupsInv, ClaimedAreOld, Claimed
  <2> QED BY <2>1, <2>2
<1>7. WindowKept'
  BY DEF RollupsInv, WindowKept, OldestRetainedMonth
<1> QED BY <1>4, <1>5, <1>6, <1>7 DEF RollupsInv

\* Only a pass that compacts has a month, so it holds the outer lock already.
LEMMA DeleteMonthInv ==
  ASSUME RollupsAssumption, RollupsInv, NEW p \in Pass, DeleteMonth(p)
  PROVE  RollupsInv'
<1> DEFINE m == pass[p].month
<1> USE DEF DeleteMonth
<1>1. Shaped(pass[p]) /\ m \in Month /\ m # NoMonth
  BY DEF RollupsInv, Shapes, Shaped
<1>2. /\ Shaped(pass'[p]) /\ pass'[p].at = pass[p].at /\ pass'[p].todo = pass[p].todo
      /\ pass'[p].month = NoMonth /\ pass'[p].gone = pass[p].gone \cup {m}
      /\ \A q \in Pass \ {p} : pass'[q] = pass[q]
  <2>1. pass = [q \in Pass |-> pass[q]]
    BY DEF RollupsInv, Shapes
  <2>2. /\ pass'[p] = [pass[p] EXCEPT !.month = NoMonth, !.gone = pass[p].gone \cup {m},
                                     !.merged[m] = pass[p].sum, !.skipped[m] = pass[p].late]
        /\ \A q \in Pass \ {p} : pass'[q] = pass[q]
    BY <2>1
  <2> HIDE DEF DeleteMonth, m
  <2>3. /\ pass'[p].at = pass[p].at /\ pass'[p].todo = pass[p].todo /\ pass'[p].month = NoMonth
        /\ pass'[p].gone = pass[p].gone \cup {m}
    BY <1>1, <2>2 DEF Shaped
  <2>4. Shaped(pass'[p])
    <3>1. pass'[p] = [pass[p] EXCEPT !.gone = pass'[p].gone, !.month = pass'[p].month,
                                     !.merged = pass'[p].merged, !.skipped = pass'[p].skipped]
      BY <1>1, <2>2 DEF Shaped
    <3> QED BY <1>1, <2>3, <3>1 DEF Shaped
  <2> QED BY <2>2, <2>3, <2>4
<1>3. pass[p].at = "compacting" /\ compactor = p
  <2>1. m \in Claimed(p)
    BY <1>1 DEF Claimed
  <2> QED BY <2>1 DEF RollupsInv, ClaimedAreOld, LocksNested
<1>4. Shapes'
  <2>1. \A q \in Pass : Shaped(pass[q])
    BY DEF RollupsInv, Shapes
  <2>2. pass' = [q \in Pass |-> pass'[q]]
    <3>1. pass = [q \in Pass |-> pass[q]]
      BY DEF RollupsInv, Shapes
    <3> QED BY <3>1
  <2>3. UNCHANGED <<today, arrived, raw, daily, compactor>> /\ writer' = p
    OBVIOUS
  <2> HIDE DEF DeleteMonth, m
  <2>4. \A q \in Pass : Shaped(pass'[q])
    BY <1>2, <2>1
  <2> QED BY <2>2, <2>3, <2>4 DEF RollupsInv, Shapes, Shaped
<1>5. LocksNested'
  BY <1>2, <1>3 DEF RollupsInv, LocksNested
<1>6. ClaimedAreOld'
  <2> SUFFICES ASSUME NEW q \in Pass
               PROVE  /\ pass'[q].at # "compacting" => Claimed(q)' = {}
                      /\ \A k \in Claimed(q)' : k < OldestRetainedMonth
    BY DEF ClaimedAreOld, OldestRetainedMonth
  <2>1. CASE q = p
    <3>1. Claimed(p)' \subseteq Claimed(p)
      BY <1>1, <1>2 DEF Claimed
    <3> QED BY <2>1, <3>1, <1>2 DEF RollupsInv, ClaimedAreOld
  <2>2. CASE q # p
    BY <2>2, <1>2 DEF RollupsInv, ClaimedAreOld, Claimed
  <2> QED BY <2>1, <2>2
<1>7. WindowKept'
  BY DEF RollupsInv, WindowKept, OldestRetainedMonth
<1> QED BY <1>4, <1>5, <1>6, <1>7 DEF RollupsInv

\* What a pass deletes lies before the window, so the window keeps its days.
LEMMA CommitPassInv ==
  ASSUME RollupsAssumption, RollupsInv, NEW p \in Pass, CommitPass(p)
  PROVE  RollupsInv'
<1> USE DEF CommitPass
<1>1. /\ Shaped(AfterPass(p)) /\ AfterPass(p).at # "compacting" /\ AfterPass(p).todo = {}
      /\ AfterPass(p).month = NoMonth /\ AfterPass(p).gone = {}
  BY DEF Shaped, NoPass, AfterPass
<1>2. pass'[p] = AfterPass(p) /\ \A q \in Pass \ {p} : pass'[q] = pass[q]
  BY DEF RollupsInv, Shapes
<1>3. Shapes'
  BY <1>1, <1>2 DEF RollupsInv, Shapes, Shaped, Remaining
<1>4. LocksNested'
  BY <1>1, <1>2 DEF RollupsInv, LocksNested, Shapes, Pass
<1>5. ClaimedAreOld'
  BY <1>1, <1>2 DEF RollupsInv, ClaimedAreOld, Claimed, OldestRetainedMonth
<1>6. WindowKept'
  <2> SUFFICES ASSUME NEW d \in Day
               PROVE  /\ MonthOf(d) >= OldestRetainedMonth => daily'[d] = arrived[d]
                      /\ d >= today - Retention => raw[d] = arrived[d]
    BY DEF WindowKept, OldestRetainedMonth
  <2>1. OldestRetainedMonth \in Int /\ MonthOf(d) \in Int /\ today \in Int
    BY Months, OldestInt DEF RollupsInv, Shapes
  <2>2. ASSUME MonthOf(d) >= OldestRetainedMonth
        PROVE  MonthOf(d) \notin pass[p].gone
    <3>1. \A k \in pass[p].gone : k < OldestRetainedMonth
      BY DEF RollupsInv, ClaimedAreOld, Claimed
    <3> QED BY <3>1, <2>1, <2>2
  <2> QED BY <2>2 DEF RollupsInv, WindowKept, Remaining
<1> QED BY <1>3, <1>4, <1>5, <1>6 DEF RollupsInv

LEMMA AbortPassInv ==
  ASSUME RollupsAssumption, RollupsInv, NEW p \in Pass, AbortPass(p)
  PROVE  RollupsInv'
<1> USE DEF AbortPass
<1>1. /\ Shaped(NoPass) /\ NoPass.at # "compacting" /\ NoPass.todo = {}
      /\ NoPass.month = NoMonth /\ NoPass.gone = {}
  BY DEF Shaped, NoPass
<1>2. pass'[p] = NoPass /\ \A q \in Pass \ {p} : pass'[q] = pass[q]
  BY DEF RollupsInv, Shapes
<1>3. Shapes'
  BY <1>1, <1>2 DEF RollupsInv, Shapes, Shaped
<1>4. LocksNested'
  BY <1>1, <1>2 DEF RollupsInv, LocksNested, Shapes, Pass
<1>5. ClaimedAreOld'
  BY <1>1, <1>2 DEF RollupsInv, ClaimedAreOld, Claimed, OldestRetainedMonth
<1>6. WindowKept'
  BY DEF RollupsInv, WindowKept, OldestRetainedMonth
<1> QED BY <1>3, <1>4, <1>5, <1>6 DEF RollupsInv

LEMMA DeleteExpiredInv ==
  ASSUME RollupsAssumption, RollupsInv, DeleteExpired
  PROVE  RollupsInv'
<1> USE DEF DeleteExpired
<1>1. /\ Shaped(NoPass) /\ NoPass.at # "compacting" /\ NoPass.todo = {}
      /\ NoPass.month = NoMonth /\ NoPass.gone = {}
  BY DEF Shaped, NoPass
<1>2. "retention" \in Pass
  BY DEF Pass
<1>3. pass'["retention"] = NoPass /\ \A q \in Pass \ {"retention"} : pass'[q] = pass[q]
  BY <1>2 DEF RollupsInv, Shapes
<1>4. Shapes'
  BY <1>1, <1>2, <1>3 DEF RollupsInv, Shapes, Shaped
<1>5. LocksNested'
  BY <1>1, <1>2, <1>3 DEF RollupsInv, LocksNested
<1>6. ClaimedAreOld'
  BY <1>1, <1>3 DEF RollupsInv, ClaimedAreOld, Claimed, OldestRetainedMonth
<1>7. WindowKept'
  BY Months DEF RollupsInv, WindowKept, OldestRetainedMonth, Shapes, RollupsAssumption
<1> QED BY <1>4, <1>5, <1>6, <1>7 DEF RollupsInv

LEMMA RollupsStepInv ==
  ASSUME RollupsAssumption, RollupsInv, [RollupsNext]_ROvars
  PROVE  RollupsInv'
<1>1. CASE UNCHANGED ROvars
  BY <1>1 DEF ROvars, RollupsInv, Shapes, Shaped, LocksNested, ClaimedAreOld, Claimed, WindowKept, OldestRetainedMonth
<1>2. CASE NextDay
  BY <1>2, NextDayInv
<1>3. ASSUME NEW d \in Day, StoreEvent(d) PROVE RollupsInv'
  BY <1>3, StoreEventInv
<1>4. ASSUME NEW p \in Pass, PassStep(p) \/ AbortPass(p) PROVE RollupsInv'
  BY <1>4, StartPassInv, ReadMonthInv, DeleteMonthInv, CommitPassInv, AbortPassInv DEF PassStep
<1>5. CASE DeleteExpired
  BY <1>5, DeleteExpiredInv
<1> QED BY <1>1, <1>2, <1>3, <1>4, <1>5 DEF RollupsNext

\* The inductive invariant of the counters holds in every behaviour.
THEOREM RollupsConsistent ==
  ASSUME RollupsAssumption
  PROVE  RollupsSpec => []RollupsInv
  BY RollupsInitInv, RollupsStepInv, PTL DEF RollupsSpec

\* Whoever holds the write lock of a compaction holds the compaction lock, so the two
\* loops cannot wait for each other (events.py:364-374).
THEOREM CompactionLocksNested ==
  ASSUME RollupsAssumption
  PROVE  RollupsSpec => []LocksNested
<1>1. RollupsInv => LocksNested
  BY DEF RollupsInv
<1> QED BY RollupsConsistent, <1>1, PTL

\* No day the trend can show is ever compacted away, and where its raw events are
\* retained the counter agrees with them (events.py:379-384, 433-438).
THEOREM TrendStaysDaily ==
  ASSUME RollupsAssumption
  PROVE  RollupsSpec => []TrendIsDaily
<1>1. RollupsInv => TrendIsDaily
  <2> SUFFICES ASSUME RollupsInv, NEW d \in Day, d > today - TrendWindow, d <= today
               PROVE  /\ daily[d] = arrived[d]
                      /\ d >= today - Retention => raw[d] = daily[d]
    BY DEF TrendIsDaily
  <2>1. d \in Int /\ today \in Int /\ TrendWindow \in Nat /\ today - (TrendWindow - 1) <= d
    BY Months DEF RollupsInv, Shapes, RollupsAssumption
  <2>2. MonthOf(d) >= OldestRetainedMonth
    BY <2>1, DivMonotonic DEF MonthOf, OldestRetainedMonth, RollupsAssumption
  <2> QED BY <2>2 DEF RollupsInv, WindowKept
<1> QED BY RollupsConsistent, <1>1, PTL

-----------------------------------------------------------------------------
(***************************************************************************)
(* What a pass deletes it carries, so that its commit moves counts from the*)
(* days to their month.  First, sums of a counter.                         *)
(***************************************************************************)

LEMMA Smallest == ASSUME NEW S, S \subseteq Nat, S # {} PROVE \E x \in S : \A y \in S : x <= y
<1>1. PICK x \in S : \A y \in S : ~(<<y, x>> \in OpToRel(<, Nat))
  BY NatLessThanWellFounded, WFMin
<1>2. \A y \in S : x <= y
  <2> SUFFICES ASSUME NEW y \in S, ~(x <= y) PROVE FALSE
    OBVIOUS
  <2>1. x \in Nat /\ y \in Nat
    OBVIOUS
  <2>2. y < x
    BY <2>1
  <2>3. <<y, x>> \in OpToRel(<, Nat)
    BY <2>1, <2>2 DEF OpToRel
  <2> QED BY <1>1, <2>3
<1> QED BY <1>2

\* Induction up to a number, over a set.
LEMMA UpTo ==
  ASSUME NEW last \in Nat, NEW A, 0 \in A, \A n \in Nat : n < last /\ n \in A => n + 1 \in A
  PROVE  0..last \subseteq A
<1> DEFINE Bad == (0..last) \ A
<1> SUFFICES ASSUME Bad # {} PROVE FALSE
  OBVIOUS
<1>1. Bad \subseteq Nat
  OBVIOUS
<1>2. PICK m \in Bad : \A k \in Bad : m <= k
  <2> HIDE DEF Bad
  <2> QED BY <1>1, Smallest
<1>3. m \in 0..last /\ m \notin A /\ m # 0
  OBVIOUS
<1>4. m - 1 \in Nat /\ m - 1 < last /\ m - 1 \in 0..last /\ ~(m <= m - 1) /\ m - 1 + 1 = m
  BY <1>3
<1>5. m - 1 \in A
  BY <1>2, <1>4
<1>6. m \in A
  BY <1>4, <1>5
<1> QED BY <1>3, <1>6

\* What is summed before a day.
Before(b, f, S, last) ==
  b = [n \in 0..last |-> IF n = 0 THEN 0 ELSE b[n - 1] + (IF n - 1 \in S THEN f[n - 1] ELSE 0)]

LEMMA BeforeExists ==
  ASSUME NEW f, NEW S, NEW last \in Nat
  PROVE  \E b : Before(b, f, S, last)
<1> DEFINE A == {n \in Nat : \E b : Before(b, f, S, n)}
<1>1. 0 \in A
  <2>1. Before([n \in 0..0 |-> 0], f, S, 0)
    BY DEF Before
  <2> QED BY <2>1
<1>2. ASSUME NEW m \in Nat, m \in A PROVE m + 1 \in A
  <2>1. PICK b : Before(b, f, S, m)
    BY <1>2
  <2> DEFINE term == IF m \in S THEN f[m] ELSE 0
             c == [n \in 0..(m + 1) |-> IF n <= m THEN b[n] ELSE b[m] + term]
  <2>2. \A n \in 0..m : c[n] = b[n] /\ b[n] = IF n = 0 THEN 0 ELSE b[n - 1] + (IF n - 1 \in S THEN f[n - 1] ELSE 0)
    BY <2>1 DEF Before
  <2>3. c[m + 1] = b[m] + term /\ m \in 0..m /\ m + 1 # 0 /\ (m + 1) - 1 = m
    OBVIOUS
  <2>4. \A n \in 0..(m + 1) : c[n] = IF n = 0 THEN 0 ELSE c[n - 1] + (IF n - 1 \in S THEN f[n - 1] ELSE 0)
    <3> SUFFICES ASSUME NEW n \in 0..(m + 1)
                 PROVE  c[n] = IF n = 0 THEN 0 ELSE c[n - 1] + (IF n - 1 \in S THEN f[n - 1] ELSE 0)
      OBVIOUS
    <3>1. CASE n = m + 1
      <4>1. c[m + 1] = c[m] + (IF m \in S THEN f[m] ELSE 0)
        <5> HIDE DEF c
        <5> QED BY <2>2, <2>3
      <4> HIDE DEF c
      <4> QED BY <2>3, <3>1, <4>1
    <3>2. CASE n # m + 1
      <4>1. n \in 0..m /\ (n # 0 => n - 1 \in 0..m)
        BY <3>2
      <4> HIDE DEF c
      <4> QED BY <2>2, <4>1
    <3> QED BY <3>1, <3>2
  <2>5. c = [n \in 0..(m + 1) |-> c[n]]
    OBVIOUS
  <2> HIDE DEF c
  <2>6. c = [n \in 0..(m + 1) |-> IF n = 0 THEN 0 ELSE c[n - 1] + (IF n - 1 \in S THEN f[n - 1] ELSE 0)]
    BY <2>4, <2>5
  <2>7. Before(c, f, S, m + 1)
    BY <2>6 DEF Before
  <2> QED BY <2>7
<1> HIDE DEF A
<1>3. 0..last \subseteq A
  BY <1>1, <1>2, UpTo
<1>4. last \in A
  BY <1>3
<1> QED BY <1>4 DEF A

LEMMA TotalIs ==
  ASSUME RollupsAssumption, NEW f, NEW S
  PROVE  \E b : Before(b, f, S, Days) /\ Total(f, S) = b[Days]
<1>1. Days \in Nat
  BY DEF RollupsAssumption, Days
<1>2. \E b : b = [n \in 0..Days |-> IF n = 0 THEN 0 ELSE b[n - 1] + (IF n - 1 \in S THEN f[n - 1] ELSE 0)]
  <2>1. \E b : Before(b, f, S, Days)
    BY <1>1, BeforeExists
  <2> QED BY <2>1 DEF Before
<1> QED BY <1>2 DEF Total, Before

\* Two sums over the same days differ by what the counters differ, on one day at most.
LEMMA SumsDiffer ==
  ASSUME RollupsAssumption, NEW f \in [Day -> Int], NEW g \in [Day -> Int], NEW S, NEW e \in Int, NEW k \in Int,
         \A d \in Day : d \in S => g[d] = f[d] + (IF d = e THEN k ELSE 0)
  PROVE  /\ Total(f, S) \in Int /\ Total(g, S) \in Int
         /\ Total(g, S) = Total(f, S) + (IF e \in S /\ e \in Day THEN k ELSE 0)
<1>1. PICK b : Before(b, f, S, Days) /\ Total(f, S) = b[Days]
  BY TotalIs
<1>2. PICK c : Before(c, g, S, Days) /\ Total(g, S) = c[Days]
  BY TotalIs
<1>3. Days \in Nat /\ Day = 0..(Days - 1)
  BY DEF RollupsAssumption, Day, Days
<1> DEFINE A == {n \in 0..Days : /\ b[n] \in Int /\ c[n] \in Int
                                          /\ c[n] = b[n] + (IF e \in S /\ 0 <= e /\ e < n THEN k ELSE 0)}
<1>4. \A n \in 0..Days :
        /\ b[n] = IF n = 0 THEN 0 ELSE b[n - 1] + (IF n - 1 \in S THEN f[n - 1] ELSE 0)
        /\ c[n] = IF n = 0 THEN 0 ELSE c[n - 1] + (IF n - 1 \in S THEN g[n - 1] ELSE 0)
  BY <1>1, <1>2 DEF Before
<1>5. 0 \in A
  <2>1. 0 \in 0..Days
    BY <1>3
  <2> QED BY <1>4, <2>1
<1>6. ASSUME NEW n \in Nat, n < Days, n \in A PROVE n + 1 \in A
  <2>1. n \in Day /\ n + 1 \in 0..Days /\ n + 1 # 0 /\ (n + 1) - 1 = n
    BY <1>3, <1>6
  <2>2. /\ b[n + 1] = b[n] + (IF n \in S THEN f[n] ELSE 0)
        /\ c[n + 1] = c[n] + (IF n \in S THEN g[n] ELSE 0)
    BY <1>4, <2>1
  <2>3. /\ b[n] \in Int /\ c[n] \in Int /\ f[n] \in Int /\ g[n] \in Int
        /\ c[n] = b[n] + (IF e \in S /\ 0 <= e /\ e < n THEN k ELSE 0)
    BY <1>6, <2>1
  <2>4. n \in S => g[n] = f[n] + (IF n = e THEN k ELSE 0)
    BY <2>1
  <2>5. b[n + 1] \in Int /\ c[n + 1] \in Int
    BY <2>2, <2>3
  <2>6. c[n + 1] = b[n + 1] + (IF e \in S /\ 0 <= e /\ e < n + 1 THEN k ELSE 0)
    <3>1. CASE n = e
      BY <2>2, <2>3, <2>4, <3>1
    <3>2. CASE n # e
      BY <2>2, <2>3, <2>4, <3>2
    <3> QED BY <3>1, <3>2
  <2> QED BY <2>1, <2>5, <2>6
<1>7. Days \in A
  <2> HIDE DEF A
  <2>1. 0..Days \subseteq A
    BY <1>3, <1>5, <1>6, UpTo
  <2> QED BY <1>3, <2>1
<1>8. e \in Day <=> 0 <= e /\ e < Days
  BY <1>3
<1> QED BY <1>1, <1>2, <1>7, <1>8

LEMMA SumSame ==
  ASSUME RollupsAssumption, NEW f \in [Day -> Int], NEW g \in [Day -> Int], NEW S,
         \A d \in Day : d \in S => g[d] = f[d]
  PROVE  Total(f, S) \in Int /\ Total(g, S) = Total(f, S)
<1>1. PICK k \in Int : k = 0
  OBVIOUS
<1>2. \A d \in Day : d \in S => g[d] = f[d] + (IF d = k THEN k ELSE 0)
  BY <1>1
<1>3. Total(f, S) \in Int /\ Total(g, S) = Total(f, S) + (IF k \in S /\ k \in Day THEN k ELSE 0)
  BY <1>2, SumsDiffer
<1> QED BY <1>1, <1>3

LEMMA SumBumped ==
  ASSUME RollupsAssumption, NEW f \in [Day -> Int], NEW e \in Day, NEW S
  PROVE  /\ [f EXCEPT ![e] = @ + 1] \in [Day -> Int]
         /\ Total(f, S) \in Int
         /\ Total([f EXCEPT ![e] = @ + 1], S) = Total(f, S) + (IF e \in S THEN 1 ELSE 0)
<1> DEFINE g == [f EXCEPT ![e] = @ + 1]
<1>1. g \in [Day -> Int] /\ e \in Int
  BY DEF Day
<1>2. \A d \in Day : d \in S => g[d] = f[d] + (IF d = e THEN 1 ELSE 0)
  OBVIOUS
<1> HIDE DEF g
<1>3. Total(f, S) \in Int /\ Total(g, S) = Total(f, S) + (IF e \in S /\ e \in Day THEN 1 ELSE 0)
  BY <1>1, <1>2, SumsDiffer
<1> QED BY <1>1, <1>3 DEF g

LEMMA SumZero ==
  ASSUME RollupsAssumption, NEW f \in [Day -> Int], NEW S, \A d \in Day : d \in S => f[d] = 0
  PROVE  Total(f, S) = 0
<1>1. PICK b : Before(b, f, S, Days) /\ Total(f, S) = b[Days]
  BY TotalIs
<1>2. Days \in Nat /\ Day = 0..(Days - 1)
  BY DEF RollupsAssumption, Day, Days
<1>3. \A n \in 0..Days : b[n] = IF n = 0 THEN 0 ELSE b[n - 1] + (IF n - 1 \in S THEN f[n - 1] ELSE 0)
  BY <1>1 DEF Before
<1> DEFINE A == {n \in 0..Days : b[n] = 0}
<1>4. 0 \in A
  <2>1. 0 \in 0..Days
    BY <1>2
  <2> QED BY <1>3, <2>1
<1>5. ASSUME NEW n \in Nat, n < Days, n \in A PROVE n + 1 \in A
  <2>1. n \in Day /\ n + 1 \in 0..Days /\ n + 1 # 0 /\ (n + 1) - 1 = n
    BY <1>2, <1>5
  <2>2. b[n + 1] = b[n] + (IF n \in S THEN f[n] ELSE 0)
    BY <1>3, <2>1
  <2> QED BY <1>5, <2>1, <2>2
<1>6. Days \in A
  <2> HIDE DEF A
  <2>1. 0..Days \subseteq A
    BY <1>2, <1>4, <1>5, UpTo
  <2> QED BY <1>2, <2>1
<1> QED BY <1>1, <1>6

-----------------------------------------------------------------------------
\* What a pass carries: the month it has read is summed up to the events stored
\* since, a month it has deleted is carried whole, and no month is read twice.
Carried(r, f) ==
  /\ r.sum \in Int /\ r.late \in Int
  /\ r.merged \in [Month -> Int] /\ r.skipped \in [Month -> Int]
  /\ r.todo \cap r.gone = {} /\ r.month \notin r.gone /\ r.month \notin r.todo
  /\ r.month # NoMonth => r.sum + r.late = Total(f, DaysOf(r.month))
  /\ \A m \in r.gone : r.merged[m] + r.skipped[m] = Total(f, DaysOf(m))
  /\ \A m \in Month \ r.gone : r.merged[m] = 0 /\ r.skipped[m] = 0

CountsInv ==
  /\ RollupsInv
  /\ monthly \in [Month -> Int] /\ missed \in [Month -> Int]
  /\ \A p \in Pass : Carried(pass[p], daily) /\ (pass[p].gone # {} => writer = p)
  /\ CountsConserved

LEMMA SumInt == ASSUME RollupsAssumption, NEW f \in [Day -> Int], NEW S PROVE Total(f, S) \in Int
  BY SumSame

\* A pass that has read nothing carries nothing.
LEMMA EmptyCarried ==
  ASSUME NEW r, NEW f, r.sum = 0, r.late = 0, r.gone = {}, r.month = NoMonth, NoMonth \notin r.todo,
         r.merged = [m \in Month |-> 0], r.skipped = [m \in Month |-> 0]
  PROVE  Carried(r, f)
  BY DEF Carried

LEMMA NoPassCarried == ASSUME NEW f PROVE Carried(NoPass, f) /\ NoPass.gone = {}
<1>1. /\ NoPass.sum = 0 /\ NoPass.late = 0 /\ NoPass.gone = {} /\ NoPass.month = NoMonth /\ NoPass.todo = {}
      /\ NoPass.merged = [m \in Month |-> 0] /\ NoPass.skipped = [m \in Month |-> 0]
  BY DEF NoPass
<1> QED BY <1>1, EmptyCarried

LEMMA CountsInit ==
  ASSUME RollupsAssumption, RollupsInit
  PROVE  CountsInv
<1> USE DEF RollupsInit
<1>1. RollupsInv
  BY RollupsInitInv
<1>2. \A p \in Pass : pass[p] = NoPass
  OBVIOUS
<1>3. \A p \in Pass : Carried(pass[p], daily) /\ pass[p].gone = {}
  BY <1>2, NoPassCarried
<1>4. CountsConserved
  <2>1. daily = arrived /\ \A d \in Day : daily[d] = 0
    OBVIOUS
  <2>2. \A m \in Month : Total(daily, DaysOf(m)) = 0
    BY <2>1, SumZero DEF DaysOf
  <2> QED BY <2>1, <2>2 DEF CountsConserved, Counted
<1> QED BY <1>1, <1>3, <1>4 DEF CountsInv

\* An event is one more of its day and month; a pass that has read the month is late by one.
LEMMA StoreEventCounts ==
  ASSUME RollupsAssumption, CountsInv, NEW e \in Day, StoreEvent(e)
  PROVE  CountsInv'
<1> USE DEF StoreEvent
<1> DEFINE one(m) == IF e \in DaysOf(m) THEN 1 ELSE 0
<1>1. RollupsInv'
  BY StoreEventInv DEF CountsInv
<1>2. daily \in [Day -> Int] /\ arrived \in [Day -> Int]
  BY DEF CountsInv, RollupsInv, Shapes
<1>3. \A m : /\ Total(daily, DaysOf(m)) \in Int /\ Total(arrived, DaysOf(m)) \in Int
             /\ Total(daily, DaysOf(m))' = Total(daily, DaysOf(m)) + one(m)
             /\ Total(arrived, DaysOf(m))' = Total(arrived, DaysOf(m)) + one(m)
  <2> SUFFICES ASSUME NEW m
               PROVE  /\ Total(daily, DaysOf(m)) \in Int /\ Total(arrived, DaysOf(m)) \in Int
                      /\ Total(daily', DaysOf(m)) = Total(daily, DaysOf(m)) + one(m)
                      /\ Total(arrived', DaysOf(m)) = Total(arrived, DaysOf(m)) + one(m)
    BY DEF Total, DaysOf
  <2> QED BY <1>2, SumBumped
<1>4. \A m : one(m) \in Int /\ (one(m) = IF m = MonthOf(e) THEN 1 ELSE 0)
  BY DEF DaysOf
<1> HIDE DEF one
<1>5. ASSUME NEW p \in Pass
      PROVE  Carried(pass'[p], daily') /\ pass'[p].gone = {}
  <2>1. Carried(pass[p], daily) /\ pass[p].gone = {}
    BY DEF CountsInv, Pass
  <2>2. Shaped(pass[p])
    BY DEF CountsInv, RollupsInv, Shapes
  <2>3. /\ pass'[p].todo = pass[p].todo /\ pass'[p].month = pass[p].month /\ pass'[p].gone = pass[p].gone
        /\ pass'[p].sum = pass[p].sum /\ pass'[p].merged = pass[p].merged /\ pass'[p].skipped = pass[p].skipped
        /\ pass'[p].late = IF pass[p].month = MonthOf(e) THEN pass[p].late + 1 ELSE pass[p].late
    BY <2>2 DEF Shaped
  <2>4. pass[p].month # NoMonth => pass'[p].sum + pass'[p].late = Total(daily, DaysOf(pass[p].month))'
    <3>1. pass[p].sum \in Int /\ pass[p].late \in Int
          /\ (pass[p].month # NoMonth => pass[p].sum + pass[p].late = Total(daily, DaysOf(pass[p].month)))
      BY <2>1 DEF Carried
    <3>2. Total(daily, DaysOf(pass[p].month))' = Total(daily, DaysOf(pass[p].month))
                                                 + (IF pass[p].month = MonthOf(e) THEN 1 ELSE 0)
      <4>1. Total(daily', DaysOf(pass[p].month)) = Total(daily, DaysOf(pass[p].month))
                                                 + (IF pass[p].month = MonthOf(e) THEN 1 ELSE 0)
        BY <1>3, <1>4
      <4> QED BY <2>3, <4>1
    <3> QED BY <3>1, <3>2, <2>3, <1>3
  <2> QED BY <2>1, <2>3, <2>4 DEF Carried
<1>6. CountsConserved'
  <2>1. \A m \in Month : monthly[m] \in Int /\ missed[m] \in Int
    BY DEF CountsInv
  <2> SUFFICES ASSUME NEW m \in Month
               PROVE  monthly'[m] + Total(daily, DaysOf(m))' + missed'[m] = Total(arrived, DaysOf(m))'
    BY DEF CountsConserved, Counted, Total, DaysOf
  <2>2. monthly'[m] = monthly[m] /\ missed'[m] = missed[m]
    OBVIOUS
  <2>3. monthly[m] + Total(daily, DaysOf(m)) + missed[m] = Total(arrived, DaysOf(m))
    BY DEF CountsConserved, Counted, CountsInv
  <2> HIDE DEF StoreEvent
  <2> QED BY <1>3, <1>4, <2>1, <2>2, <2>3
<1> QED BY <1>1, <1>5, <1>6 DEF CountsInv

\* A pass that starts carries nothing.
LEMMA StartPassCounts ==
  ASSUME RollupsAssumption, CountsInv, NEW p \in Pass, StartPass(p)
  PROVE  CountsInv'
<1> DEFINE started == [NoPass EXCEPT !.at = "compacting", !.todo = Compactable]
<1> USE DEF StartPass
<1>1. RollupsInv'
  BY StartPassInv DEF CountsInv
<1>2. /\ started.sum = 0 /\ started.late = 0 /\ started.gone = {} /\ started.month = NoMonth
      /\ started.todo \subseteq Month
      /\ started.merged = [m \in Month |-> 0] /\ started.skipped = [m \in Month |-> 0]
  BY DEF NoPass, Compactable
<1>4. pass'[p] = started /\ \A q \in Pass \ {p} : pass'[q] = pass[q]
  BY DEF CountsInv, RollupsInv, Shapes
<1> HIDE DEF started
<1>3. Carried(started, daily) /\ started.gone = {}
  BY <1>2, EmptyCarried, Months
<1>5. \A q \in Pass : Carried(pass'[q], daily') /\ (pass'[q].gone # {} => writer' = q)
  BY <1>3, <1>4 DEF CountsInv
<1> QED BY <1>1, <1>5 DEF CountsInv, CountsConserved, Counted

LEMMA ReadMonthCounts ==
  ASSUME RollupsAssumption, CountsInv, NEW p \in Pass, ReadMonth(p)
  PROVE  CountsInv'
<1> USE DEF ReadMonth
<1>1. RollupsInv'
  BY ReadMonthInv DEF CountsInv
<1>2. PICK m \in pass[p].todo :
        pass' = [pass EXCEPT ![p] = [pass[p] EXCEPT !.month = m, !.todo = pass[p].todo \ {m},
                                              !.sum = Total(daily, DaysOf(m)), !.late = 0]]
  OBVIOUS
<1>3. Shaped(pass[p]) /\ m \in Month /\ Carried(pass[p], daily)
  BY DEF CountsInv, RollupsInv, Shapes, Shaped
<1>4. /\ pass'[p].todo = pass[p].todo \ {m} /\ pass'[p].month = m /\ pass'[p].gone = pass[p].gone
      /\ pass'[p].sum = Total(daily, DaysOf(m)) /\ pass'[p].late = 0
      /\ pass'[p].merged = pass[p].merged /\ pass'[p].skipped = pass[p].skipped
      /\ \A q \in Pass \ {p} : pass'[q] = pass[q]
  BY <1>2, <1>3 DEF CountsInv, RollupsInv, Shapes, Shaped
<1>5. Total(daily, DaysOf(m)) \in Int
  BY SumInt DEF CountsInv, RollupsInv, Shapes
<1>6. Carried(pass'[p], daily')
  <2>1. daily' = daily
    OBVIOUS
  <2>2. \A k \in Month \ pass[p].gone : pass[p].merged[k] = 0 /\ pass[p].skipped[k] = 0
    BY <1>3 DEF Carried
  <2>3. \A k \in pass[p].gone : pass[p].merged[k] + pass[p].skipped[k] = Total(daily, DaysOf(k))
    BY <1>3 DEF Carried
  <2>4. /\ pass[p].merged \in [Month -> Int] /\ pass[p].skipped \in [Month -> Int]
        /\ pass[p].todo \cap pass[p].gone = {}
    BY <1>3 DEF Carried
  <2> HIDE DEF ReadMonth
  <2> QED BY <1>4, <1>5, <2>1, <2>2, <2>3, <2>4 DEF Carried
<1>7. \A q \in Pass : Carried(pass'[q], daily') /\ (pass'[q].gone # {} => writer' = q)
  <2> SUFFICES ASSUME NEW q \in Pass PROVE Carried(pass'[q], daily') /\ (pass'[q].gone # {} => writer' = q)
    OBVIOUS
  <2>1. Carried(pass[q], daily) /\ (pass[q].gone # {} => writer = q)
    BY DEF CountsInv
  <2>2. CASE q = p
    BY <2>1, <2>2, <1>4, <1>6
  <2>3. CASE q # p
    BY <2>1, <2>3, <1>4
  <2> QED BY <2>2, <2>3
<1> QED BY <1>1, <1>7 DEF CountsInv, CountsConserved, Counted

\* The month's sum is carried with what came too late for it.
LEMMA DeleteMonthCounts ==
  ASSUME RollupsAssumption, CountsInv, NEW p \in Pass, DeleteMonth(p)
  PROVE  CountsInv'
<1> DEFINE m == pass[p].month
<1> USE DEF DeleteMonth
<1>1. RollupsInv'
  BY DeleteMonthInv DEF CountsInv
<1>2. Shaped(pass[p]) /\ m \in Month /\ m # NoMonth /\ Carried(pass[p], daily)
  BY DEF CountsInv, RollupsInv, Shapes, Shaped
<1>3. /\ pass'[p].todo = pass[p].todo /\ pass'[p].month = NoMonth /\ pass'[p].gone = pass[p].gone \cup {m}
      /\ pass'[p].sum = pass[p].sum /\ pass'[p].late = pass[p].late
      /\ pass'[p].merged = [pass[p].merged EXCEPT ![m] = pass[p].sum]
      /\ pass'[p].skipped = [pass[p].skipped EXCEPT ![m] = pass[p].late]
      /\ \A q \in Pass \ {p} : pass'[q] = pass[q]
  BY <1>2 DEF CountsInv, RollupsInv, Shapes, Shaped
<1>4. Carried(pass'[p], daily')
  <2>0. /\ daily' = daily /\ pass[p].todo \subseteq Month /\ pass[p].gone \subseteq Month
        /\ pass[p].merged \in [Month -> Int] /\ pass[p].skipped \in [Month -> Int]
        /\ pass[p].sum \in Int /\ pass[p].late \in Int
        /\ pass[p].sum + pass[p].late = Total(daily, DaysOf(m))
        /\ pass[p].todo \cap pass[p].gone = {} /\ m \notin pass[p].gone /\ m \notin pass[p].todo
    BY <1>2 DEF Carried, Shaped
  <2>6. /\ \A k \in pass[p].gone : pass[p].merged[k] + pass[p].skipped[k] = Total(daily, DaysOf(k))
        /\ \A k \in Month \ pass[p].gone : pass[p].merged[k] = 0 /\ pass[p].skipped[k] = 0
    BY <1>2 DEF Carried
  <2> HIDE DEF DeleteMonth, m
  <2>1. pass'[p].todo \cap pass'[p].gone = {} /\ NoMonth \notin pass'[p].gone /\ NoMonth \notin pass'[p].todo
    BY <2>0, <1>2, <1>3, Months
  <2>2. \A k \in pass'[p].gone : pass'[p].merged[k] + pass'[p].skipped[k] = Total(daily, DaysOf(k))
    BY <1>2, <1>3, <2>0, <2>6
  <2>3. \A k \in Month \ pass'[p].gone : pass'[p].merged[k] = 0 /\ pass'[p].skipped[k] = 0
    BY <1>2, <1>3, <2>0, <2>6
  <2>4. pass'[p].merged \in [Month -> Int] /\ pass'[p].skipped \in [Month -> Int]
    BY <1>2, <1>3, <2>0
  <2>5. pass'[p].sum \in Int /\ pass'[p].late \in Int /\ pass'[p].month = NoMonth /\ daily' = daily
    BY <1>2, <1>3, <2>0
  <2> QED BY <2>1, <2>2, <2>3, <2>4, <2>5 DEF Carried
<1>5. \A q \in Pass : Carried(pass'[q], daily') /\ (pass'[q].gone # {} => writer' = q)
  <2> SUFFICES ASSUME NEW q \in Pass PROVE Carried(pass'[q], daily') /\ (pass'[q].gone # {} => writer' = q)
    OBVIOUS
  <2>1. Carried(pass[q], daily) /\ (pass[q].gone # {} => writer = q)
    BY DEF CountsInv
  <2>2. CASE q = p
    BY <2>2, <1>4
  <2>3. CASE q # p
    <3>1. pass'[q] = pass[q] /\ daily' = daily /\ pass[q].gone = {}
      BY <2>1, <2>3, <1>3 DEF Pass
    <3> HIDE DEF DeleteMonth, m
    <3> QED BY <2>1, <3>1 DEF Carried
  <2> QED BY <2>2, <2>3
<1> QED BY <1>1, <1>5 DEF CountsInv, CountsConserved, Counted

\* The months carried lose their days and get their sums; the others keep both.
LEMMA CommitPassCounts ==
  ASSUME RollupsAssumption, CountsInv, NEW p \in Pass, CommitPass(p)
  PROVE  CountsInv'
<1> USE DEF CommitPass
<1>1. RollupsInv'
  BY CommitPassInv DEF CountsInv
<1>2. daily \in [Day -> Int] /\ daily' \in [Day -> Int] /\ daily' = Remaining(p)
  BY <1>1 DEF CountsInv, RollupsInv, Shapes
<1>3. Carried(pass[p], daily) /\ Shaped(pass[p])
  BY DEF CountsInv, RollupsInv, Shapes
<1>4. AfterPass(p).todo = {} /\ Carried(AfterPass(p), daily') /\ AfterPass(p).gone = {}
  <2>1. /\ AfterPass(p).sum = 0 /\ AfterPass(p).late = 0 /\ AfterPass(p).gone = {} /\ AfterPass(p).todo = {}
        /\ AfterPass(p).month = NoMonth
        /\ AfterPass(p).merged = [m \in Month |-> 0] /\ AfterPass(p).skipped = [m \in Month |-> 0]
    BY DEF AfterPass, NoPass
  <2> HIDE DEF CommitPass
  <2> QED BY <2>1 DEF Carried
<1>5. pass'[p] = AfterPass(p) /\ \A q \in Pass \ {p} : pass'[q] = pass[q]
  BY DEF CountsInv, RollupsInv, Shapes
<1>6. \A q \in Pass \ {p} : pass[q].month = NoMonth /\ pass[q].gone = {}
  BY DEF CountsInv, RollupsInv, LocksNested, ClaimedAreOld, Claimed
<1>7. \A q \in Pass : Carried(pass'[q], daily') /\ pass'[q].gone = {}
  <2> SUFFICES ASSUME NEW q \in Pass PROVE Carried(pass'[q], daily') /\ pass'[q].gone = {}
    OBVIOUS
  <2>1. CASE q = p
    <3>1. pass'[q] = AfterPass(p)
      BY <2>1, <1>5
    <3> HIDE DEF CommitPass
    <3> QED BY <3>1, <1>4 DEF Carried
  <2>2. CASE q # p
    <3>1. pass'[q] = pass[q] /\ pass[q].month = NoMonth /\ pass[q].gone = {} /\ Carried(pass[q], daily)
      BY <2>2, <1>5, <1>6 DEF CountsInv
    <3> HIDE DEF CommitPass
    <3> QED BY <3>1 DEF Carried
  <2> QED BY <2>1, <2>2
<1>8. \A m \in Month : monthly[m] \in Int /\ missed[m] \in Int
  BY DEF CountsInv
<1>9. \A m \in Month : /\ monthly'[m] = monthly[m] + pass[p].merged[m]
                       /\ missed'[m] = missed[m] + pass[p].skipped[m]
  BY DEF Merged
<1>10. monthly' \in [Month -> Int] /\ missed' \in [Month -> Int]
  BY <1>3, <1>8 DEF Merged, Carried
<1>11. ASSUME NEW m \in Month
       PROVE  monthly'[m] + Total(daily, DaysOf(m))' + missed'[m] = Total(arrived, DaysOf(m))
  <2>1. monthly[m] + Total(daily, DaysOf(m)) + missed[m] = Total(arrived, DaysOf(m))
    BY DEF CountsInv, CountsConserved, Counted
  <2>2. Total(daily, DaysOf(m)) \in Int /\ pass[p].merged[m] \in Int /\ pass[p].skipped[m] \in Int
    BY <1>2, <1>3, SumInt DEF Carried
  <2>3. CASE m \in pass[p].gone
    <3>1. Total(daily', DaysOf(m)) = 0
      <4>1. \A d \in Day : d \in DaysOf(m) => daily'[d] = 0
        BY <1>2, <2>3 DEF DaysOf, Remaining
      <4> QED BY <1>2, <4>1, SumZero
    <3>2. pass[p].merged[m] + pass[p].skipped[m] = Total(daily, DaysOf(m))
      BY <1>3, <2>3 DEF Carried
    <3> QED BY <1>8, <1>9, <2>1, <2>2, <3>1, <3>2
  <2>4. CASE m \notin pass[p].gone
    <3>1. Total(daily', DaysOf(m)) = Total(daily, DaysOf(m))
      <4>1. \A d \in Day : d \in DaysOf(m) => daily'[d] = daily[d]
        BY <1>2, <2>4 DEF DaysOf, Remaining
      <4> QED BY <1>2, <4>1, SumSame
    <3>2. pass[p].merged[m] = 0 /\ pass[p].skipped[m] = 0
      BY <1>3, <2>4 DEF Carried
    <3> QED BY <1>8, <1>9, <2>1, <2>2, <3>1, <3>2
  <2> QED BY <2>3, <2>4
<1>12. CountsConserved'
  <2>1. arrived' = arrived
    OBVIOUS
  <2> HIDE DEF CommitPass
  <2> QED BY <2>1, <1>11 DEF CountsConserved, Counted
<1> QED BY <1>1, <1>7, <1>10, <1>12 DEF CountsInv

\* A pass that ends without a commit leaves the counters as they were.
LEMMA PassOverCounts ==
  ASSUME RollupsAssumption, CountsInv, RollupsInv', NEW p \in Pass,
         pass' = [pass EXCEPT ![p] = NoPass], daily' = daily, arrived' = arrived,
         monthly' = monthly, missed' = missed, writer' = writer \/ (writer = p /\ writer' = "nobody")
  PROVE  CountsInv'
<1>1. pass'[p] = NoPass /\ \A q \in Pass \ {p} : pass'[q] = pass[q]
  BY DEF CountsInv, RollupsInv, Shapes
<1>2. Carried(NoPass, daily) /\ NoPass.gone = {}
  BY NoPassCarried
<1>3. \A q \in Pass : Carried(pass'[q], daily') /\ (pass'[q].gone # {} => writer' = q)
  BY <1>1, <1>2 DEF CountsInv, Carried
<1> QED BY <1>3 DEF CountsInv, CountsConserved, Counted

LEMMA CountsStep ==
  ASSUME RollupsAssumption, CountsInv, [RollupsNext]_ROvars
  PROVE  CountsInv'
<1>1. CASE NextDay \/ UNCHANGED ROvars
  <2>1. RollupsInv'
    BY <1>1, RollupsStepInv DEF CountsInv
  <2>2. UNCHANGED <<arrived, daily, monthly, missed, writer, pass>>
    BY <1>1 DEF NextDay, ROvars
  <2> QED BY <2>1, <2>2 DEF CountsInv, Carried, CountsConserved, Counted
<1>2. ASSUME NEW d \in Day, StoreEvent(d) PROVE CountsInv'
  BY <1>2, StoreEventCounts
<1>3. ASSUME NEW p \in Pass, PassStep(p) PROVE CountsInv'
  BY <1>3, StartPassCounts, ReadMonthCounts, DeleteMonthCounts, CommitPassCounts DEF PassStep
<1>4. ASSUME NEW p \in Pass, AbortPass(p) PROVE CountsInv'
  <2>1. RollupsInv'
    BY <1>4, AbortPassInv DEF CountsInv
  <2> QED BY <1>4, <2>1, PassOverCounts DEF AbortPass
<1>5. CASE DeleteExpired
  <2>1. RollupsInv' /\ "retention" \in Pass
    BY <1>5, DeleteExpiredInv DEF CountsInv, Pass
  <2> QED BY <1>5, <2>1, PassOverCounts DEF DeleteExpired
<1> QED BY <1>1, <1>2, <1>3, <1>4, <1>5 DEF RollupsNext

\* Every event that was stored is counted once, in its day or in its month, except those
\* stored between a pass's sum of their month and its write lock, whatever the passes,
\* their failures and late events do (events.py:386-418).
THEOREM EventsCounted ==
  ASSUME RollupsAssumption
  PROVE  RollupsSpec => []CountsConserved
<1>1. CountsInv => CountsConserved
  BY DEF CountsInv
<1> QED BY CountsInit, CountsStep, <1>1, PTL DEF RollupsSpec
=============================================================================
