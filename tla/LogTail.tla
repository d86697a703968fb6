------------------------------ MODULE LogTail ------------------------------
(***************************************************************************)
(* A log datasource: the tick that reads what a log file has grown by      *)
(* (plugins/base.py, tail_text_file), stores it in chunks under the write  *)
(* lock (plugins/manager.py, _run_datasource_tick), and the duplicate      *)
(* detection that must keep one event for one fact (services/events.py and *)
(* crowdsec/services/dedupe.py), against a file that is written in pieces  *)
(* and rotated, manual bans that are recorded twice over, retention,       *)
(* lost commits and restarts.                                              *)
(*                                                                         *)
(* A line is its number; it takes two units of the file, so that half a    *)
(* line can be read.  What is read of it, whole or in halves, is a piece:  *)
(* readline hands each to the parser as if it were a line.  A half is an   *)
(* event of its own if it still shows what the parser looks for, which     *)
(* happens with GeoBlock and CrowdSec and never with Traefik, whose lines  *)
(* are JSON.  No two pieces read the same.  All bans are of one address    *)
(* and within the time window of the fallback rule.                        *)
(***************************************************************************)
EXTENDS Integers, FiniteSets

CONSTANTS
    MaxLines,    \* bound: lines ever written
    Acts,        \* the manual bans, numbered from 1
    Batch,       \* MAX_LINES_PER_TICK
    Chunk,       \* EVENTS_COMMIT_EVERY
    Backlog,     \* lines that are in the log before the first start
    Kept,        \* how many of the newest lines retention keeps
    MaxFaults    \* bound: crashes, lost commits, skipped events, rotations, half lines

ASSUME LogTailAssumption ==
    /\ {MaxLines, Batch, Chunk} \subseteq Nat \ {0}
    /\ {Kept, MaxFaults} \subseteq Nat /\ Backlog \in 0..MaxLines
    /\ Acts \subseteq Nat \ {0} /\ IsFiniteSet(Acts)

VARIABLES
    written,     \* complete lines so far
    ban,         \* for a line: the manual ban it reports, 0 for none
    halves,      \* what each half of a line that was written in two shows
    file,        \* the log: inode, first line, size, and whether it was cut
    effected,    \* the manual bans CrowdSec has made
    tail,        \* the plugin's memory: offset, inode and size last seen
    batch,       \* pieces that were read and are not stored yet
    judged,      \* "now": under the lock; else what a look-up said before it
    stored,      \* events of a piece
    counted,     \* what the rollups have counted of it
    merged,      \* pieces that were taken for an event that is there already
    spoiled,     \* lines lost to a fault, or read in halves, since the last start
    forgotten,   \* pieces whose event retention has deleted
    act,         \* how far a manual ban has come
    acted,       \* the event the action has stored
    lock,        \* the manual ban that holds the write lock, 0 for none
    up,          \* the process runs
    maintained,  \* the marker of the duplicate clean-up
    faults

logvars == <<written, ban, halves, file, effected>>
ctlvars == <<tail, batch, judged>>
rowvars == <<stored, counted, merged, forgotten>>
actvars == <<act, acted, lock>>
LTvars == <<logvars, ctlvars, rowvars, spoiled, actvars, up, maintained, faults>>

Lines == 1..MaxLines
Pieces == [line : Lines, part : {"whole", "head", "rest"}]
Whole(k) == [line |-> k, part |-> "whole"]

(* What a parser and the duplicate rules look for: the words that make an  *)
(* event, the id of the action, the address.                               *)
Marks == {"event", "action", "address"}
Unsplit == [head |-> {}, rest |-> {}]
NoTail == [offset |-> 0, inode |-> 0, size |-> 0]

TypeOK ==
    /\ written \in 0..MaxLines
    /\ ban \in [Lines -> Acts \union {0}]
    /\ halves \in [Lines -> [head : SUBSET Marks, rest : SUBSET Marks]]
    /\ file \in [inode : Nat, first : 1..(MaxLines + 1), size : Nat, cut : BOOLEAN]
    /\ tail \in [offset : Nat, inode : Nat, size : Nat]
    /\ batch \subseteq Pieces
    /\ judged \in {"now", "wait", "new", "dup"}
    /\ stored \in [Pieces -> 0..2] /\ counted \in [Pieces -> Nat]
    /\ {merged, forgotten} \subseteq SUBSET Pieces /\ spoiled \subseteq Lines
    /\ act \in [Acts -> {"none", "open", "done", "failed", "over"}]
    /\ effected \subseteq Acts
    /\ acted \in [Acts -> {"none", "ban", "failed"}]
    /\ lock \in Acts \union {0}
    /\ up \in BOOLEAN /\ maintained \in BOOLEAN
    /\ faults \in 0..MaxFaults

(* A new installation next to a log that is there already, or one that an  *)
(* older version has left behind: retention has deleted the event of       *)
(* line 1, and line 2 was stored twice.                                    *)
Init ==
    /\ \/ /\ written = Backlog /\ maintained = TRUE
          /\ file = [inode |-> 1, first |-> 1, size |-> 2 * Backlog, cut |-> FALSE]
          /\ stored = [p \in Pieces |-> 0] /\ counted = stored /\ forgotten = {}
       \/ /\ written = 2 /\ MaxLines >= 2 /\ maintained = FALSE
          /\ file = [inode |-> 1, first |-> 3, size |-> 0, cut |-> FALSE]
          /\ stored = [p \in Pieces |-> IF p = Whole(2) THEN 2 ELSE 0]
          /\ counted = [p \in Pieces |-> CASE p = Whole(1) -> 1 [] p = Whole(2) -> 2 [] OTHER -> 0]
          /\ forgotten = {Whole(1)}
    /\ ban = [k \in Lines |-> 0] /\ halves = [k \in Lines |-> Unsplit]
    /\ tail = NoTail /\ batch = {} /\ judged = "now"
    /\ merged = {} /\ spoiled = {}
    /\ act = [a \in Acts |-> "none"] /\ acted = [a \in Acts |-> "none"]
    /\ effected = {} /\ lock = 0 /\ up = FALSE /\ faults = 0

Fault == faults < MaxFaults /\ faults' = faults + 1

(***************************************************************************)
(* The log                                                                 *)
(***************************************************************************)
InFile(k) == file.first <= k /\ k <= written

(* The file may not grow back to what was last seen of it between being    *)
(* cut and being read: tail_text_file says that it would miss that.        *)
Seen == IF tail.offset > tail.size THEN tail.offset ELSE tail.size
Grow(n) ==
    /\ file.cut => file.size + n < Seen
    /\ file' = [file EXCEPT !.size = @ + n]

Reported == {ban[k] : k \in Lines}
Due == effected \ Reported

(* What half of a line may show: nothing, or an event, and of a manual ban *)
(* the id of its action and the address.  The id is there once.            *)
Shows(a) ==
    {{}} \union {{"event"} \union keys :
                   keys \in SUBSET (IF a = 0 THEN {} ELSE {"action", "address"})}

(* A line, or half of it and the rest.  A line that reports a ban is begun *)
(* after the ban.                                                          *)
Write(a) ==
    /\ file.size % 2 = 0 /\ written < MaxLines
    /\ a \in Due \union {0}
    /\ ban' = [ban EXCEPT ![written + 1] = a]
    /\ \/ /\ Grow(2) /\ written' = written + 1
          /\ UNCHANGED <<halves, faults>>
       \/ /\ Grow(1) /\ Fault
          /\ \E seen \in Shows(a) :
                halves' = [halves EXCEPT ![written + 1] = [head |-> seen, rest |-> {}]]
          /\ UNCHANGED written
    /\ UNCHANGED <<effected, ctlvars, rowvars, spoiled, actvars, up, maintained>>

WriteRest ==
    /\ file.size % 2 = 1
    /\ Grow(1)
    /\ written' = written + 1
    /\ LET head == halves[written'].head
       IN  \E seen \in Shows(ban[written']) :
             /\ "action" \notin head \intersect seen
             /\ halves' = [halves EXCEPT ![written'] = [head |-> head, rest |-> seen]]
    /\ UNCHANGED <<ban, effected, ctlvars, rowvars, spoiled, actvars, up, maintained, faults>>

(* Rotation by renaming, and by copying and truncating.                    *)
Rotate ==
    /\ file.size > 0 /\ file.size % 2 = 0 /\ Fault
    /\ \/ file' = [inode |-> file.inode + 1, first |-> written + 1, size |-> 0, cut |-> FALSE]
       \/ file' = [file EXCEPT !.first = written + 1, !.size = 0,
                               !.cut = tail.inode = file.inode /\ Seen > 0]
    /\ UNCHANGED <<written, ban, halves, effected, ctlvars, rowvars, spoiled, actvars, up, maintained>>

(***************************************************************************)
(* Reading: readline from the offset, a capped number of times.  It ends   *)
(* at the end of a line or of the file, so that half a line is handed over *)
(* as it is, and its rest at the next tick.                                *)
(***************************************************************************)
TruncatedBehind == file.size < tail.offset   \* mutant of the next
Truncated == file.size < tail.offset \/ file.size < tail.size
From == IF (tail.inode # 0 /\ file.inode # tail.inode) \/ Truncated THEN 0 ELSE tail.offset
Until == LET most == 2 * (From \div 2 + Batch)
         IN  IF most < file.size THEN most ELSE file.size

At(k) == 2 * (k - file.first)
Ends(p) == At(p.line) + IF p.part = "head" THEN 1 ELSE 2
Begins(p) == At(p.line) + IF p.part = "rest" THEN 1 ELSE 0
Read ==
    {p \in Pieces :
       /\ p.line >= file.first /\ From <= Begins(p) /\ Ends(p) <= Until
       /\ p.part = "head" => Ends(p) = file.size
       /\ p.part = "rest" => Begins(p) = From}

(* The marks that the parser finds, in a whole line all of them.           *)
Sight(p) ==
    CASE p.part = "whole" -> IF ban[p.line] = 0 THEN {"event"} ELSE Marks
      [] p.part = "head" -> halves[p.line].head
      [] p.part = "rest" -> halves[p.line].rest

Remembered == [offset |-> Until, inode |-> file.inode, size |-> file.size]

Collect ==
    /\ up /\ batch = {}
    /\ tail' = Remembered
    /\ file' = [file EXCEPT !.cut = FALSE]
    /\ batch' = {p \in Read : "event" \in Sight(p)} /\ judged' = "now"
    /\ spoiled' = spoiled \union {p.line : p \in {q \in Read : q.part # "whole"}}
    /\ UNCHANGED <<written, ban, halves, effected, rowvars, actvars, up, maintained, faults>>

(***************************************************************************)
(* Storing                                                                 *)
(***************************************************************************)
IsBan(p) == ban[p.line] # 0
BanAt(p) == IsBan(p) /\ "address" \in Sight(p)
BanEvents(s) == {p \in Pieces : BanAt(p) /\ s[p] > 0} \union {a \in Acts : acted[a] = "ban"}

(* Rules first, then the same raw text: an event with the id of the        *)
(* action, whatever became of it, or a recent ban of the address.          *)
ByRule(s, p) ==
    \/ IsBan(p) /\ "action" \in Sight(p) /\ acted[ban[p.line]] # "none"
    \/ BanAt(p) /\ BanEvents(s) # {}
Duplicate(s, p) == ByRule(s, p) \/ s[p] > 0

(* A batch is stored in the order of the file.                             *)
Earliest(S, n) == {p \in S : Cardinality({q \in S : q.line <= p.line}) <= n}
Foremost == CHOOSE p \in batch : \A q \in batch : p.line <= q.line
NextChunk == Earliest(batch, Chunk)

(* What the look-up says of a piece, but for the events of its own chunk:  *)
(* of two that report bans of the address the first makes the other a      *)
(* duplicate.                                                              *)
IsNew(p) == IF judged = "now" \/ p # Foremost THEN ~Duplicate(stored, p) ELSE judged = "new"
NewOf(good) ==
    {p \in good : IsNew(p) /\ ~\E q \in good : q.line < p.line /\ BanAt(q) /\ BanAt(p) /\ IsNew(q)}

(* The events of a chunk, and one of them that fails in its savepoint.     *)
StoreChunk ==
    /\ batch # {} /\ lock = 0 /\ judged # "wait"
    /\ \E bad \in {{}} \union {{p} : p \in NextChunk} :
          LET good == NextChunk \ bad
              new == NewOf(good)
          IN  /\ IF bad = {} THEN UNCHANGED faults ELSE Fault
              /\ stored' = [p \in Pieces |-> IF p \in new THEN stored[p] + 1 ELSE stored[p]]
              /\ counted' = [p \in Pieces |-> IF p \in new THEN counted[p] + 1 ELSE counted[p]]
              /\ merged' = merged \union (good \ new)
              /\ spoiled' = spoiled \union {p.line : p \in bad}
    /\ batch' = batch \ NextChunk
    /\ judged' = "wait"
    /\ UNCHANGED <<logvars, tail, forgotten, actvars, up, maintained>>

(* From the second chunk on nothing is dirty when the look-up is made, so  *)
(* that it precedes the lock.                                              *)
Judge ==
    /\ batch # {} /\ judged = "wait"
    /\ judged' = IF Duplicate(stored, Foremost) THEN "dup" ELSE "new"
    /\ UNCHANGED <<logvars, tail, batch, rowvars, spoiled, actvars, up, maintained, faults>>

(* A commit that fails ends the tick; the offset has advanced already.     *)
LoseChunk ==
    /\ batch # {} /\ lock = 0 /\ Fault
    /\ batch' = {} /\ judged' = "now"
    /\ spoiled' = spoiled \union {p.line : p \in batch}
    /\ UNCHANGED <<logvars, tail, rowvars, actvars, up, maintained>>

(***************************************************************************)
(* Manual bans: the row of the action takes the write lock, which is held  *)
(* across the request to CrowdSec until the event is committed.            *)
(***************************************************************************)
Unlocked(a) == 0                             \* mutant of the next
Locked(a) == a

BeginBan(a) ==
    /\ up /\ lock = 0 /\ act[a] = "none"
    /\ lock' = Locked(a) /\ act' = [act EXCEPT ![a] = "open"]
    /\ UNCHANGED <<logvars, ctlvars, rowvars, spoiled, acted, up, maintained, faults>>

(* CrowdSec bans, bans although its answer is lost, or refuses.            *)
ExecuteBan(a) ==
    /\ act[a] = "open"
    /\ \E effect, answer \in BOOLEAN :
          /\ answer => effect
          /\ effected' = IF effect THEN effected \union {a} ELSE effected
          /\ act' = [act EXCEPT ![a] = IF answer THEN "done" ELSE "failed"]
    /\ UNCHANGED <<written, ban, halves, file, ctlvars, rowvars, spoiled, acted, lock, up, maintained, faults>>

RecordBan(a) ==
    /\ act[a] \in {"done", "failed"} /\ lock \in {0, a}
    /\ lock' = 0 /\ act' = [act EXCEPT ![a] = "over"]
    /\ \/ /\ acted' = [acted EXCEPT ![a] = IF act[a] = "done" THEN "ban" ELSE "failed"]
          /\ UNCHANGED faults
       \/ Fault /\ UNCHANGED acted
    /\ UNCHANGED <<logvars, ctlvars, rowvars, spoiled, up, maintained>>

(***************************************************************************)
(* Retention, crash and start                                              *)
(***************************************************************************)
Old == {p \in Pieces : p.line + Kept <= written /\ stored[p] > 0}
Forget ==
    /\ up /\ lock = 0 /\ Old # {}
    /\ stored' = [p \in Pieces |-> IF p \in Old THEN 0 ELSE stored[p]]
    /\ forgotten' = forgotten \union Old
    /\ UNCHANGED <<logvars, ctlvars, counted, merged, spoiled, actvars, up, maintained, faults>>

Crash ==
    /\ up /\ Fault /\ up' = FALSE
    /\ tail' = NoTail /\ batch' = {} /\ judged' = "now"
    /\ file' = [file EXCEPT !.cut = FALSE]
    /\ lock' = 0 /\ spoiled' = {}
    /\ act' = [a \in Acts |-> IF act[a] = "none" THEN "none" ELSE "over"]
    /\ UNCHANGED <<written, ban, halves, effected, rowvars, acted, maintained>>

(* The clean-up of duplicates, once for an installation: the rollups are   *)
(* counted anew from the events that are left.                             *)
Unique == [p \in Pieces |-> IF stored[p] > 1 THEN 1 ELSE stored[p]]
RebuiltOver == counted                       \* mutant of the next
Rebuilt == IF Unique = stored THEN counted ELSE Unique
Start ==
    /\ ~up /\ up' = TRUE
    /\ maintained' = TRUE
    /\ IF maintained THEN UNCHANGED <<stored, counted>>
       ELSE stored' = Unique /\ counted' = Rebuilt
    /\ UNCHANGED <<logvars, ctlvars, merged, forgotten, spoiled, actvars, faults>>

Next ==
    \/ \E a \in Acts \union {0} : Write(a)
    \/ WriteRest \/ Rotate
    \/ Collect \/ StoreChunk \/ Judge \/ LoseChunk
    \/ \E a \in Acts : BeginBan(a) \/ ExecuteBan(a) \/ RecordBan(a)
    \/ Forget \/ Crash \/ Start

(* The loop of the datasource and a request go on; the process is started  *)
(* again.                                                                  *)
Finish == \E a \in Acts : ExecuteBan(a) \/ RecordBan(a)
Fairness ==
    /\ WF_LTvars(Collect) /\ WF_LTvars(StoreChunk) /\ WF_LTvars(Judge)
    /\ WF_LTvars(Finish) /\ WF_LTvars(Start)

Spec == Init /\ [][Next]_LTvars /\ Fairness

(***************************************************************************)
(* Properties                                                              *)
(***************************************************************************)
(* Whatever is read twice, after a restart, a rotation or an upgrade:      *)
(* while its event is kept, a piece of the log has one event at most and   *)
(* the rollups count exactly that one.  A line that was read in halves is  *)
(* two pieces, and a third when it is read again as a whole.               *)
IngestedOnce ==
    up => \A p \in Pieces \ forgotten : stored[p] <= 1 /\ counted[p] = stored[p]

(* A manual ban never has an event of its action and one of a piece of the *)
(* log that shows which action or which address it is about, although the  *)
(* two are stored by different threads and the log can be read before the  *)
(* action is committed.  By the address alone a failure is not found, and  *)
(* half a line that shows neither is beyond both rules.                    *)
OneBanOneEvent ==
    \A p \in Pieces : stored[p] > 0 /\ IsBan(p) =>
      /\ "action" \in Sight(p) => acted[ban[p.line]] = "none"
      /\ "address" \in Sight(p) => acted[ban[p.line]] # "ban"

(* A line that is in the log is stored or taken for an event that is       *)
(* there, unless a fault has cost it, it was read in halves, the log was   *)
(* rotated away or the process has stopped.                                *)
Settled(k) == stored[Whole(k)] > 0 \/ Whole(k) \in merged \union forgotten \/ k \in spoiled
Drains == \A k \in Lines : (up /\ InFile(k)) ~> (Settled(k) \/ ~InFile(k) \/ ~up)

(* What the documentation says of rollups: they outlive the events.        *)
HistoryKept == [][\A p \in Pieces : counted'[p] >= counted[p] \/ stored[p] > 1]_LTvars

(* And an event is one count of them.                                      *)
CountedOnce == up => \A p \in Pieces : counted[p] <= 1

(* A line of the log is one event, however it is read.                     *)
LineOnce == \A p, q \in Pieces : stored[p] > 0 /\ stored[q] > 0 /\ p # q => p.line # q.line

(* The log line of a manual ban is no second event beside the action's.    *)
BanShownOnce == \A p \in Pieces : stored[p] > 0 /\ IsBan(p) => acted[ban[p.line]] # "ban"

(* A ban that CrowdSec reports is an event of a ban.                       *)
LoggedBanShown == \A p \in merged : IsBan(p) => BanEvents(stored) # {} \/ forgotten # {}

=============================================================================
