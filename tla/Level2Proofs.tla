---------------------------- MODULE Level2Proofs ----------------------------
(***************************************************************************)
(* That the Level 2 cycle passes no ban and no rule over, for every value  *)
(* of the constants.  A tick reads a few bans and a few rules, what it     *)
(* found is committed later, and both sets change in between; the          *)
(* invariant says what the cursor that is stored with the findings stands  *)
(* for, and that what changes while a window is drained is none of its     *)
(* business: it is too young to be settled by it.                          *)
(***************************************************************************)
EXTENDS Level2, FiniteSetTheorems, TLAPS

(***************************************************************************)
(* The inductive invariant                                                 *)
(***************************************************************************)
\* A ban that is not committed yet is within the overlap.
BansInv ==
  /\ \A b \in Ban : created[b] <= now
  /\ \A b \in open : created[b] # None /\ created[b] + RecheckMinutes >= now
  /\ \A b \in Ban : created[b] # None => b \in stored \cup open

\* No window, completed or under way, ends in the future.
CutoffInv ==
  /\ cutoff <= now
  /\ cutoff # None => began # None
  /\ began = None => cycle = NoCycle
  /\ cycle = NoCycle /\ cutoff = None => began = None

\* A window continues the completed one.
WindowInv(s) ==
  /\ s.from # None /\ s.to \in Time /\ s.to >= cutoff /\ s.to <= now
  /\ IF cutoff = None THEN began \in {None, s.from} ELSE s.from = cutoff - RecheckMinutes
  /\ s.batch = {} => s.lastId = 0
  /\ \A r \in s.batch : r > s.lastRule

\* What a window is to settle: a ban of it that is older than the overlap when it
\* ends, for a rule that has been active all that time.
ToSettle(s, b, r) ==
  /\ created[b] >= s.from /\ created[b] + RecheckMinutes < s.to
  /\ since[r] <= created[b] + RecheckMinutes

\* The batches so far, and this one up to the last ban, are judged.
JudgedInv(s) ==
  \A b \in Ban, r \in active :
    ToSettle(s, b, r) /\ (r <= s.lastRule \/ (r \in s.batch /\ b <= s.lastId)) =>
      judged[<<b, r>>] >= created[b] + RecheckMinutes

\* A batch passes no rule over that was active before the window.
BatchInv(s) ==
  \A r \in active :
    s.batch # {} /\ since[r] < s.to /\ r > s.lastRule /\ r <= Max(s.batch) => r \in s.batch

\* The window that is committed and that of the running tick.
InPlay == (IF cycle = NoCycle THEN {} ELSE {cycle}) \cup (IF tick.running THEN {tick.state} ELSE {})
WindowsInv == \A s \in InPlay : WindowInv(s)
JudgementsInv == \A s \in InPlay : JudgedInv(s)
BatchesInv == \A s \in InPlay : BatchInv(s)

\* The rules and bans that a running tick has read pass none over either.
RulesRead == \A r \in active : since[r] < tick.state.to /\ r > tick.state.lastRule => r \in tick.remaining
BansRead ==
  \A b \in Ban :
    /\ created[b] >= tick.state.from /\ created[b] + RecheckMinutes < tick.state.to
    /\ b > tick.state.lastId
    /\ Cardinality(tick.anchors) < MaxBanAnchors \/ b <= Max(tick.anchors)
    => b \in tick.anchors
TickInv == tick.at >= tick.state.to /\ tick.at <= now /\ RulesRead /\ BansRead

\* What the completed windows were to settle is judged.
SettledInv ==
  \A b \in Ban, r \in active :
    created[b] >= began /\ cutoff > created[b] + RecheckMinutes /\ since[r] <= created[b] + RecheckMinutes
      => judged[<<b, r>>] >= created[b] + RecheckMinutes

IInv ==
  /\ TypeOK /\ BansInv /\ CutoffInv /\ WindowsInv /\ JudgementsInv /\ BatchesInv
  /\ tick.running => TickInv
  /\ SettledInv

(***************************************************************************)
(* The first elements of a set and its largest                             *)
(***************************************************************************)
LEMMA MaxInSet ==
  ASSUME NEW S, IsFiniteSet(S), S \subseteq Nat, S # {}
  PROVE  Max(S) \in S /\ \A y \in S : y <= Max(S)
<1> DEFINE Above(x) == {y \in S : y > x}
           T == {Above(x) : x \in S}
<1>1. T \subseteq FiniteSubsetsOf(S)
  BY FS_FiniteSubsetsOfFinite
<1>2. T # {}
  OBVIOUS
<1>3. IsWellFoundedOn(StrictSubsetOrdering(S), FiniteSubsetsOf(S))
  BY FS_StrictSubsetOrderingWellFounded
<1> HIDE DEF T
<1>4. PICK t \in T : \A u \in T : ~ (<<u, t>> \in StrictSubsetOrdering(S))
  BY <1>1, <1>2, <1>3, WFMin
<1>5. PICK x \in S : t = Above(x)
  BY DEF T
<1>6. \A y \in S : x >= y
  <2> SUFFICES ASSUME NEW y \in S, y > x PROVE FALSE
    OBVIOUS
  <2>0. (\A z \in S : z > y => z > x) /\ ~ (y > y) /\ y > x
    <3>1. x \in Nat /\ y \in Nat /\ \A z \in S : z \in Nat
      OBVIOUS
    <3>. QED
      BY <3>1
  <2>1. Above(y) \subseteq Above(x) /\ y \in Above(x) /\ y \notin Above(y)
    BY <2>0
  <2>2. Above(y) \in SUBSET S /\ Above(x) \in SUBSET S
    OBVIOUS
  <2>3. Above(y) \in T
    BY DEF T
  <2> HIDE DEF Above
  <2>4. <<Above(y), Above(x)>> \in StrictSubsetOrdering(S)
    BY <2>1, <2>2 DEF StrictSubsetOrdering
  <2>. QED
    BY <1>4, <1>5, <2>3, <2>4
<1>7. Max(S) \in S /\ \A y \in S : Max(S) >= y
  BY <1>6 DEF Max
<1>. QED
  BY <1>7

LEMMA MinInSet ==
  ASSUME NEW S, IsFiniteSet(S), S \subseteq Nat, S # {}
  PROVE  \E x \in S : \A y \in S : x <= y
<1> DEFINE Below(x) == {y \in S : y < x}
           T == {Below(x) : x \in S}
<1>1. T \subseteq FiniteSubsetsOf(S)
  BY FS_FiniteSubsetsOfFinite
<1>2. T # {}
  OBVIOUS
<1>3. IsWellFoundedOn(StrictSubsetOrdering(S), FiniteSubsetsOf(S))
  BY FS_StrictSubsetOrderingWellFounded
<1> HIDE DEF T
<1>4. PICK t \in T : \A u \in T : ~ (<<u, t>> \in StrictSubsetOrdering(S))
  BY <1>1, <1>2, <1>3, WFMin
<1>5. PICK x \in S : t = Below(x)
  BY DEF T
<1>6. \A y \in S : x <= y
  <2> SUFFICES ASSUME NEW y \in S, y < x PROVE FALSE
    OBVIOUS
  <2>0. (\A z \in S : z < y => z < x) /\ ~ (y < y) /\ y < x
    <3>1. x \in Nat /\ y \in Nat /\ \A z \in S : z \in Nat
      OBVIOUS
    <3>. QED
      BY <3>1
  <2>1. Below(y) \subseteq Below(x) /\ y \in Below(x) /\ y \notin Below(y)
    BY <2>0
  <2>2. Below(y) \in SUBSET S /\ Below(x) \in SUBSET S
    OBVIOUS
  <2>3. Below(y) \in T
    BY DEF T
  <2> HIDE DEF Below
  <2>4. <<Below(y), Below(x)>> \in StrictSubsetOrdering(S)
    BY <2>1, <2>2 DEF StrictSubsetOrdering
  <2>. QED
    BY <1>4, <1>5, <2>3, <2>4
<1>. QED
  BY <1>6

\* Up to its largest element, the first n elements leave none out.
LEMMA FirstBelow ==
  ASSUME NEW S, IsFiniteSet(S), S \subseteq Nat, NEW n \in Nat, First(S, n) # {},
         NEW x \in S, x <= Max(First(S, n))
  PROVE  x \in First(S, n)
<1> DEFINE m == Max(First(S, n))
           Upto(y) == {z \in S : z <= y}
<1>1. First(S, n) \subseteq S /\ First(S, n) \in SUBSET S
  BY DEF First
<1>2. IsFiniteSet(First(S, n))
  BY <1>1, FS_Subset
<1>3. m \in First(S, n)
  BY <1>1, <1>2, MaxInSet
<1>4. m \in S /\ Cardinality(Upto(m)) <= n
  BY <1>3 DEF First
<1>5. x <= m
  OBVIOUS
<1> HIDE DEF m
<1>6. Upto(x) \subseteq Upto(m) /\ Upto(m) \subseteq S
  <2>1. m \in Nat /\ x \in Nat
    BY <1>4
  <2>2. \A z \in S : z <= x => z <= m
    BY <1>5, <2>1
  <2>. QED
    BY <2>2
<1>7. IsFiniteSet(Upto(m)) /\ IsFiniteSet(Upto(x))
  BY <1>6, FS_Subset
<1>8. Cardinality(Upto(x)) <= Cardinality(Upto(m))
  BY <1>6, <1>7, FS_Subset
<1>9. Cardinality(Upto(x)) \in Nat /\ Cardinality(Upto(m)) \in Nat
  BY <1>7, FS_CardinalityType
<1>10. Cardinality(Upto(x)) <= n
  BY <1>4, <1>8, <1>9
<1>. QED
  BY <1>10 DEF First

\* Fewer than n are all there are.
LEMMA FirstAll ==
  ASSUME NEW S, IsFiniteSet(S), S \subseteq Nat, NEW n \in Nat, Cardinality(First(S, n)) < n
  PROVE  First(S, n) = S
<1> SUFFICES ASSUME S \ First(S, n) # {} PROVE FALSE
  BY DEF First
<1> DEFINE R == S \ First(S, n)
           F == First(S, n)
           Upto(y) == {z \in S : z <= y}
<1>1. F \in SUBSET S /\ R \in SUBSET S
  BY DEF First
<1>2. IsFiniteSet(F) /\ IsFiniteSet(R)
  BY <1>1, FS_Subset
<1>3. PICK x \in R : \A y \in R : x <= y
  <2> HIDE DEF R
  <2>1. R # {} /\ R \subseteq Nat
    BY <1>1 DEF R
  <2>. QED
    BY <1>2, <2>1, MinInSet
<1>4. x \in S /\ x \notin F
  OBVIOUS
<1>5. Upto(x) \subseteq F \cup {x}
  <2> SUFFICES ASSUME NEW y \in S, y <= x, y # x, y \notin F PROVE FALSE
    OBVIOUS
  <2>1. y \in R
    OBVIOUS
  <2>2. x <= y
    BY <1>3, <2>1
  <2>. QED
    BY <1>4, <2>2
<1>6. Cardinality(F) \in Nat /\ IsFiniteSet(F \cup {x}) /\ Cardinality(F \cup {x}) = Cardinality(F) + 1
  <2> HIDE DEF F
  <2>. QED
    BY <1>2, <1>4, FS_CardinalityType, FS_AddElement
<1>7. Cardinality(Upto(x)) <= Cardinality(F \cup {x}) /\ IsFiniteSet(Upto(x))
  BY <1>5, <1>6, FS_Subset
<1>8. Cardinality(Upto(x)) \in Nat
  BY <1>7, FS_CardinalityType
<1>9. Cardinality(F) < n
  OBVIOUS
<1>10. Cardinality(Upto(x)) <= n
  <2> HIDE DEF F, Upto
  <2>. QED
    BY <1>6, <1>7, <1>8, <1>9
<1>11. x \in First(S, n)
  BY <1>4, <1>10 DEF First
<1>. QED
  BY <1>4, <1>11

(***************************************************************************)
(* The initial states                                                      *)
(***************************************************************************)
LEMMA Numbers ==
  /\ RecheckMinutes \in Nat /\ MaxTime \in Nat /\ MaxBanAnchors \in Nat \ {0} /\ MaxChainRules \in Nat
  /\ None \in Int /\ None < 0 /\ None + RecheckMinutes = -1 /\ Time \subseteq Nat
  /\ Rule \subseteq Nat \ {0} /\ Ban \subseteq Nat \ {0} /\ IsFiniteSet(Rule) /\ IsFiniteSet(Ban)
BY Level2Assumption DEF None, Time

LEMMA Integral ==
  /\ \A t \in Time \cup {None} : t \in Int /\ t + RecheckMinutes \in Int /\ t >= None
  /\ \A t \in None..MaxTime : t \in Int
  /\ \A r \in Rule \cup {0} : r \in Nat
  /\ \A b \in Ban \cup {0} : b \in Nat
BY Numbers

LEMMA Types ==
  ASSUME TypeOK
  PROVE  /\ now \in Int /\ cutoff \in Int /\ began \in Int
         /\ \A b \in Ban : created[b] \in Int /\ created[b] + RecheckMinutes \in Int
         /\ \A r \in Rule : since[r] \in Int
         /\ active \subseteq Rule /\ open \subseteq Ban /\ stored \subseteq Ban
<1>1. /\ now \in Time /\ cutoff \in Time \cup {None} /\ began \in None..MaxTime
      /\ active \subseteq Rule /\ open \subseteq Ban /\ stored \subseteq Ban
  BY DEF TypeOK
<1>2. \A b \in Ban : created[b] \in Time \cup {None}
  BY DEF TypeOK
<1>3. \A r \in Rule : since[r] \in Time
  BY DEF TypeOK
<1>. QED
  BY <1>1, <1>2, <1>3, Integral

LEMMA WindowTypes ==
  ASSUME TypeOK, WindowsInv, NEW s \in InPlay
  PROVE  /\ s \in CycleState /\ s.from \in Int /\ s.to \in Int /\ s.to <= now /\ s.lastId \in Nat
         /\ s.lastRule \in Nat /\ s.lastRule \in Rule \cup {0} /\ s.batch \subseteq Rule
         /\ WindowInv(s)
<1>1. s \in CycleState
  <2>1. cycle \in CycleState /\ tick.state \in CycleState
    BY DEF TypeOK, TickState
  <2>. QED
    BY <2>1 DEF InPlay
<1>2. WindowInv(s)
  BY DEF WindowsInv
<1>3. s.to \in Time /\ s.to <= now
  BY <1>2 DEF WindowInv
<1>4. /\ s.from \in None..MaxTime /\ s.lastId \in Ban \cup {0} /\ s.lastRule \in Rule \cup {0}
      /\ s.batch \subseteq Rule
  BY <1>1 DEF CycleState
<1>. QED
  BY <1>1, <1>2, <1>3, <1>4, Integral

LEMMA InitTypes == 0 \in Time /\ NoCycle \in CycleState /\ Idle \in TickState
<1>1. 0 \in Time /\ None \in None..MaxTime
  BY Numbers DEF Time
<1>2. NoCycle \in CycleState
  BY <1>1 DEF NoCycle, CycleState
<1>. QED
  BY <1>1, <1>2 DEF Idle, TickState

LEMMA InitIInv == Init => IInv
<1> SUFFICES ASSUME Init PROVE IInv
  OBVIOUS
<1>1. /\ now = 0 /\ active \in SUBSET Rule /\ since = [r \in Rule |-> 0]
      /\ created = [b \in Ban |-> None] /\ stored = {} /\ open = {}
      /\ cycle = NoCycle /\ cutoff = None /\ tick = Idle
      /\ judged = [p \in Ban \X Rule |-> None] /\ began = None /\ changes = 0
  BY DEF Init
<1>2. None \in None..MaxTime /\ 0 \in 0..MaxChanges
  BY Numbers, Level2Assumption
<1>5. TypeOK
  BY <1>1, <1>2, InitTypes, Numbers DEF TypeOK
<1>6. tick.running = FALSE
  BY <1>1 DEF Idle
<1>7. InPlay = {}
  BY <1>1, <1>6 DEF InPlay
<1>8. BansInv /\ CutoffInv
  BY <1>1, Numbers DEF BansInv, CutoffInv
<1>9. SettledInv
  <2> SUFFICES ASSUME NEW b \in Ban, cutoff > created[b] + RecheckMinutes PROVE FALSE
    BY DEF SettledInv
  <2>1. created[b] = None /\ cutoff = None
    BY <1>1
  <2>. QED
    BY <2>1, Numbers
<1>. QED
  BY <1>5, <1>6, <1>7, <1>8, <1>9 DEF IInv, WindowsInv, JudgementsInv, BatchesInv

(***************************************************************************)
(* Time, bans and rules                                                    *)
(***************************************************************************)
\* What the cycle knows stays true while only the clock runs.
LEMMA ClockKeeps ==
  ASSUME IInv, UNCHANGED <<active, since, created, cycle, cutoff, tick, judged, began, changes>>,
         now' \in Time, now <= now'
  PROVE  /\ CutoffInv' /\ WindowsInv' /\ JudgementsInv' /\ BatchesInv' /\ SettledInv'
         /\ (tick.running => TickInv)'
<1>1. TypeOK /\ CutoffInv /\ WindowsInv /\ JudgementsInv /\ BatchesInv /\ SettledInv
      /\ (tick.running => TickInv)
  BY DEF IInv
<1>2. now \in Int /\ now' \in Int /\ cutoff \in Int /\ Time \subseteq Int
  BY <1>1, Numbers DEF TypeOK
<1>3. CutoffInv'
  BY <1>1, <1>2 DEF CutoffInv
<1>4. InPlay' = InPlay
  BY DEF InPlay
<1>5. WindowsInv'
  <2> SUFFICES ASSUME NEW s \in InPlay PROVE WindowInv(s)'
    BY <1>4 DEF WindowsInv
  <2>1. WindowInv(s) /\ s.to \in Int
    BY <1>1, WindowTypes
  <2>. QED
    BY <1>2, <2>1 DEF WindowInv
<1>6. JudgementsInv' /\ BatchesInv'
  BY <1>1, <1>4 DEF JudgementsInv, BatchesInv, JudgedInv, BatchInv, ToSettle
<1>7. SettledInv'
  BY <1>1 DEF SettledInv
<1>8. (tick.running => TickInv)'
  <2> SUFFICES ASSUME tick.running PROVE TickInv'
    OBVIOUS
  <2>1. tick.at \in Int
    BY <1>1, <1>2 DEF TypeOK, TickState
  <2>. QED
    BY <1>1, <1>2, <2>1 DEF TickInv, RulesRead, BansRead
<1>. QED
  BY <1>3, <1>5, <1>6, <1>7, <1>8

LEMMA MinuteKeeps ==
  ASSUME IInv, Minute
  PROVE  IInv'
<1>1. TypeOK /\ BansInv
  BY DEF IInv
<1>2. /\ now < MaxTime /\ \A b \in open : created[b] + RecheckMinutes > now
      /\ now' = now + 1
      /\ UNCHANGED <<active, since, created, stored, open, cycle, cutoff, tick, judged, began, changes>>
  BY DEF Minute
<1>3. now \in Nat /\ now' \in Time /\ now <= now'
  BY <1>1, <1>2, Numbers DEF TypeOK, Time
<1>4. TypeOK'
  BY <1>1, <1>2, <1>3 DEF TypeOK
<1>5. \A b \in Ban : created[b] \in Int
  BY <1>1, Types
<1>6. open \subseteq Ban
  BY <1>1 DEF TypeOK
<1>7. BansInv'
  <2>1. \A b \in Ban : created[b] <= now'
    BY <1>1, <1>2, <1>3, <1>5 DEF BansInv
  <2>2. \A b \in open : created[b] + RecheckMinutes >= now'
    BY <1>2, <1>3, <1>5, <1>6, Numbers
  <2>. QED
    BY <1>1, <1>2, <2>1, <2>2 DEF BansInv
<1>. QED
  BY <1>2, <1>3, <1>4, <1>7, ClockKeeps DEF IInv

LEMMA CommitBansKeeps ==
  ASSUME IInv, CommitBans
  PROVE  IInv'
<1>1. TypeOK /\ BansInv
  BY DEF IInv
<1>2. /\ stored' = stored \cup open /\ open' = {}
      /\ UNCHANGED <<now, active, since, created, cycle, cutoff, tick, judged, began, changes>>
  BY DEF CommitBans
<1>3. now' \in Time /\ now <= now'
  BY <1>1, <1>2, Numbers DEF TypeOK
<1>4. TypeOK' /\ BansInv'
  BY <1>1, <1>2 DEF TypeOK, BansInv
<1>. QED
  BY <1>2, <1>3, <1>4, ClockKeeps DEF IInv

LEMMA StutterKeeps ==
  ASSUME IInv, UNCHANGED vars
  PROVE  IInv'
<1>1. TypeOK /\ BansInv
  BY DEF IInv
<1>2. UNCHANGED <<now, active, since, created, stored, open, cycle, cutoff, tick, judged, began, changes>>
  BY DEF vars
<1>3. now' \in Time /\ now <= now'
  BY <1>1, <1>2, Numbers DEF TypeOK
<1>4. TypeOK' /\ BansInv'
  BY <1>1, <1>2 DEF TypeOK, BansInv
<1>. QED
  BY <1>2, <1>3, <1>4, ClockKeeps DEF IInv

\* A ban that comes now is too young for every window.
LEMMA StoreBanKeeps ==
  ASSUME IInv, NEW b \in Ban, StoreBan(b)
  PROVE  IInv'
<1>1. /\ TypeOK /\ BansInv /\ CutoffInv /\ WindowsInv /\ JudgementsInv /\ BatchesInv /\ SettledInv
      /\ tick.running => TickInv
  BY DEF IInv
<1>2. /\ created' = [created EXCEPT ![b] = now] /\ open' = open \cup {b}
      /\ UNCHANGED <<now, active, since, stored, cycle, cutoff, tick, judged, began, changes>>
  BY DEF StoreBan
<1>3. /\ now \in Time /\ now \in Int /\ cutoff \in Int /\ open \subseteq Ban
      /\ created \in [Ban -> Time \cup {None}]
      /\ \A c \in Ban : created[c] \in Int
  BY <1>1, Types DEF TypeOK
<1>4. \A c \in Ban : created'[c] = IF c = b THEN now ELSE created[c]
  BY <1>2, <1>3
<1>5. TypeOK'
  BY <1>1, <1>2, <1>3 DEF TypeOK
<1>6. BansInv'
  <2>1. now + RecheckMinutes >= now /\ now # None /\ now <= now
    BY <1>3, Numbers
  <2>. QED
    BY <1>1, <1>2, <1>3, <1>4, <2>1 DEF BansInv
<1>7. InPlay' = InPlay
  BY <1>2 DEF InPlay
<1>8. CutoffInv' /\ WindowsInv' /\ BatchesInv'
  BY <1>1, <1>2, <1>7 DEF CutoffInv, WindowsInv, BatchesInv, WindowInv, BatchInv
<1>9. JudgementsInv'
  <2> SUFFICES ASSUME NEW s \in InPlay, NEW c \in Ban, NEW r \in active, ToSettle(s, c, r)',
                      r <= s.lastRule \/ (r \in s.batch /\ c <= s.lastId)
               PROVE  judged[<<c, r>>] >= created'[c] + RecheckMinutes
    BY <1>2, <1>7 DEF JudgementsInv, JudgedInv
  <2>1. s.to \in Int /\ s.to <= now
    BY <1>1, WindowTypes
  <2>2. created'[c] + RecheckMinutes < s.to
    BY DEF ToSettle
  <2>3. c # b
    BY <1>3, <1>4, <2>1, <2>2, Numbers
  <2>4. created'[c] = created[c] /\ ToSettle(s, c, r)
    BY <1>2, <1>4, <2>3 DEF ToSettle
  <2>. QED
    BY <1>1, <2>4 DEF JudgementsInv, JudgedInv
<1>10. SettledInv'
  <2> SUFFICES ASSUME NEW c \in Ban, NEW r \in active, created'[c] >= began,
                      cutoff > created'[c] + RecheckMinutes, since[r] <= created'[c] + RecheckMinutes
               PROVE  judged[<<c, r>>] >= created'[c] + RecheckMinutes
    BY <1>2 DEF SettledInv
  <2>1. c # b
    BY <1>1, <1>3, <1>4, Numbers DEF CutoffInv
  <2>. QED
    BY <1>1, <1>4, <2>1 DEF SettledInv
<1>11. (tick.running => TickInv)'
  <2> SUFFICES ASSUME tick.running PROVE TickInv'
    BY <1>2
  <2>1. tick.state \in InPlay
    BY DEF InPlay
  <2>2. tick.state.to \in Int /\ tick.state.to <= now
    BY <1>1, <2>1, WindowTypes
  <2>3. TickInv
    BY <1>1
  <2>4. BansRead'
    <3> SUFFICES ASSUME NEW c \in Ban, created'[c] >= tick.state.from,
                        created'[c] + RecheckMinutes < tick.state.to, c > tick.state.lastId,
                        Cardinality(tick.anchors) < MaxBanAnchors \/ c <= Max(tick.anchors)
                 PROVE  c \in tick.anchors
      BY <1>2 DEF BansRead
    <3>1. c # b
      BY <1>3, <1>4, <2>2, Numbers
    <3>. QED
      BY <1>4, <2>3, <3>1 DEF TickInv, BansRead
  <2>. QED
    BY <1>2, <2>3, <2>4 DEF TickInv, RulesRead
<1>. QED
  BY <1>5, <1>6, <1>8, <1>9, <1>10, <1>11 DEF IInv

\* So is a rule that comes now.
LEMMA ChangeRuleKeeps ==
  ASSUME IInv, NEW r \in Rule, ChangeRule(r)
  PROVE  IInv'
<1>1. /\ TypeOK /\ BansInv /\ CutoffInv /\ WindowsInv /\ JudgementsInv /\ BatchesInv /\ SettledInv
      /\ tick.running => TickInv
  BY DEF IInv
<1>2. /\ changes < MaxChanges /\ changes' = changes + 1
      /\ active' = IF r \in active THEN active \ {r} ELSE active \cup {r}
      /\ since' = [since EXCEPT ![r] = now]
      /\ UNCHANGED <<now, created, stored, open, cycle, cutoff, tick, judged, began>>
  BY DEF ChangeRule
<1>3. /\ now \in Time /\ now \in Int /\ cutoff \in Int /\ active \subseteq Rule
      /\ since \in [Rule -> Time] /\ \A c \in Ban : created[c] + RecheckMinutes \in Int
  BY <1>1, Types DEF TypeOK
<1>4. /\ since'[r] = now /\ \A q \in Rule \ {r} : since'[q] = since[q]
      /\ \A q \in active' : q = r \/ (q \in active /\ since'[q] = since[q])
  BY <1>2, <1>3
<1>5. TypeOK'
  <2>1. changes' \in 0..MaxChanges
    BY <1>1, <1>2, Level2Assumption DEF TypeOK
  <2>2. active' \subseteq Rule /\ since' \in [Rule -> Time]
    BY <1>2, <1>3
  <2>. QED
    BY <1>1, <1>2, <2>1, <2>2 DEF TypeOK
<1>6. InPlay' = InPlay
  BY <1>2 DEF InPlay
<1>7. BansInv' /\ CutoffInv' /\ WindowsInv'
  BY <1>1, <1>2, <1>6 DEF BansInv, CutoffInv, WindowsInv, WindowInv
<1>8. \A s \in InPlay : s.to \in Int /\ s.to <= now
  BY <1>1, WindowTypes
<1>9. JudgementsInv'
  <2> SUFFICES ASSUME NEW s \in InPlay, NEW c \in Ban, NEW q \in active', ToSettle(s, c, q)',
                      q <= s.lastRule \/ (q \in s.batch /\ c <= s.lastId)
               PROVE  judged[<<c, q>>] >= created[c] + RecheckMinutes
    BY <1>2, <1>6 DEF JudgementsInv, JudgedInv
  <2>1. created[c] + RecheckMinutes < s.to /\ since'[q] <= created[c] + RecheckMinutes
    BY <1>2 DEF ToSettle
  <2>2. q # r
    BY <1>3, <1>4, <1>8, <2>1
  <2>3. q \in active /\ ToSettle(s, c, q)
    BY <1>2, <1>4, <2>2 DEF ToSettle
  <2>. QED
    BY <1>1, <2>3 DEF JudgementsInv, JudgedInv
<1>10. BatchesInv'
  <2> SUFFICES ASSUME NEW s \in InPlay, NEW q \in active', s.batch # {}, since'[q] < s.to,
                      q > s.lastRule, q <= Max(s.batch)
               PROVE  q \in s.batch
    BY <1>6 DEF BatchesInv, BatchInv
  <2>1. q # r
    BY <1>3, <1>4, <1>8
  <2>2. q \in active /\ since[q] < s.to
    BY <1>4, <2>1
  <2>. QED
    BY <1>1, <2>2 DEF BatchesInv, BatchInv
<1>11. SettledInv'
  <2> SUFFICES ASSUME NEW c \in Ban, NEW q \in active', created[c] >= began,
                      cutoff > created[c] + RecheckMinutes, since'[q] <= created[c] + RecheckMinutes
               PROVE  judged[<<c, q>>] >= created[c] + RecheckMinutes
    BY <1>2 DEF SettledInv
  <2>1. q # r
    BY <1>1, <1>3, <1>4 DEF CutoffInv
  <2>. QED
    BY <1>1, <1>4, <2>1 DEF SettledInv
<1>12. (tick.running => TickInv)'
  <2> SUFFICES ASSUME tick.running PROVE TickInv'
    BY <1>2
  <2>1. tick.state \in InPlay
    BY DEF InPlay
  <2>2. tick.state.to \in Int /\ tick.state.to <= now
    BY <1>8, <2>1
  <2>3. TickInv
    BY <1>1
  <2>4. RulesRead'
    <3> SUFFICES ASSUME NEW q \in active', since'[q] < tick.state.to, q > tick.state.lastRule
                 PROVE  q \in tick.remaining
      BY <1>2 DEF RulesRead
    <3>1. q # r
      BY <1>3, <1>4, <2>2
    <3>. QED
      BY <1>4, <2>3, <3>1 DEF TickInv, RulesRead
  <2>. QED
    BY <1>2, <2>3, <2>4 DEF TickInv, BansRead
<1>. QED
  BY <1>5, <1>7, <1>9, <1>10, <1>11, <1>12 DEF IInv

(***************************************************************************)
(* The ticks                                                               *)
(***************************************************************************)
LEMMA LoseTickKeeps ==
  ASSUME IInv, LoseTick
  PROVE  IInv'
<1>1. /\ TypeOK /\ BansInv /\ CutoffInv /\ WindowsInv /\ JudgementsInv /\ BatchesInv /\ SettledInv
  BY DEF IInv
<1>2. /\ tick' = Idle
      /\ UNCHANGED <<now, active, since, created, stored, open, cycle, cutoff, judged, began, changes>>
  BY DEF LoseTick
<1>3. Idle \in TickState /\ Idle.running = FALSE
  BY Numbers, InitTypes DEF Idle, TickState
<1>4. TypeOK'
  BY <1>1, <1>2, <1>3 DEF TypeOK
<1>5. InPlay' \subseteq InPlay
  BY <1>2, <1>3 DEF InPlay
<1>6. WindowsInv' /\ JudgementsInv' /\ BatchesInv'
  BY <1>1, <1>2, <1>5
     DEF WindowsInv, JudgementsInv, BatchesInv, WindowInv, JudgedInv, BatchInv, ToSettle
<1>7. BansInv' /\ CutoffInv' /\ SettledInv'
  BY <1>1, <1>2 DEF BansInv, CutoffInv, SettledInv
<1>. QED
  BY <1>2, <1>3, <1>4, <1>6, <1>7 DEF IInv

\* What a tick goes on with is a window like any other.
LEMMA ResumedWindow ==
  ASSUME IInv
  PROVE  /\ Resumed \in CycleState /\ WindowInv(Resumed) /\ JudgedInv(Resumed) /\ BatchInv(Resumed)
<1>1. TypeOK /\ CutoffInv /\ WindowsInv /\ JudgementsInv /\ BatchesInv
  BY DEF IInv
<1>2. CASE cycle # NoCycle
  <2>1. Resumed = cycle /\ cycle \in InPlay /\ cycle \in CycleState
    BY <1>1, <1>2 DEF Resumed, InPlay, TypeOK
  <2>. QED
    BY <1>1, <2>1 DEF WindowsInv, JudgementsInv, BatchesInv
<1>3. CASE cycle = NoCycle
  <2> DEFINE previous == IF cutoff = None THEN now ELSE cutoff
             to == IF now > previous THEN now ELSE previous
  <2>1. /\ now \in Time /\ now \in Nat /\ cutoff \in Time \cup {None} /\ cutoff <= now
        /\ MaxTime \in Nat /\ RecheckMinutes \in Nat
    BY <1>1, Numbers DEF TypeOK, CutoffInv
  <2>2. previous \in Time /\ previous \in Nat /\ previous <= now
    BY <2>1, Numbers
  <2>3. to = now
    BY <2>1, <2>2
  <2>4. Resumed = [NoCycle EXCEPT !.from = previous - RecheckMinutes, !.to = to]
    BY <1>3 DEF Resumed, NewWindow
  <2> HIDE DEF previous, to
  <2>5. Resumed = [from |-> previous - RecheckMinutes, to |-> now, lastId |-> 0, lastRule |-> 0, batch |-> {}]
    BY <2>3, <2>4 DEF NoCycle
  <2>6. previous - RecheckMinutes \in None..MaxTime /\ previous - RecheckMinutes # None
    <3>1. previous <= MaxTime /\ previous >= 0
      BY <2>2, Numbers DEF Time
    <3>. QED
      BY <2>1, <2>2, <3>1 DEF None
  <2>7. now \in None..MaxTime
    BY <2>1, Numbers DEF Time
  <2>8. Resumed \in CycleState
    BY <2>5, <2>6, <2>7 DEF CycleState
  <2>9. WindowInv(Resumed)
    <3>1. cutoff = None => began = None
      BY <1>1, <1>3 DEF CutoffInv
    <3>2. cutoff # None => previous = cutoff
      BY DEF previous
    <3>3. now <= now /\ cutoff <= now
      BY <2>1
    <3>. QED
      BY <2>1, <2>5, <2>6, <3>1, <3>2, <3>3 DEF WindowInv
  <2>10. \A r \in active : ~ (r <= 0)
    <3>1. \A r \in active : r \in Nat /\ r # 0
      BY <1>1, Numbers, Types
    <3>. QED
      BY <3>1
  <2>11. JudgedInv(Resumed)
    BY <2>5, <2>10 DEF JudgedInv
  <2>12. BatchInv(Resumed)
    BY <2>5 DEF BatchInv
  <2>. QED
    BY <2>8, <2>9, <2>11, <2>12
<1>. QED
  BY <1>2, <1>3

\* A new batch of rules starts with the first ban, and passes no rule over.
LEMMA BatchedWindow ==
  ASSUME IInv, NEW s, s \in CycleState, WindowInv(s), JudgedInv(s), BatchInv(s), s.batch = {},
         NEW rules, rules = {r \in active : r > s.lastRule},
         NEW t, t = [s EXCEPT !.batch = First(rules, MaxChainRules)]
  PROVE  t \in CycleState /\ WindowInv(t) /\ JudgedInv(t) /\ BatchInv(t)
<1>1. /\ TypeOK /\ active \subseteq Rule /\ rules \subseteq Rule /\ Rule \subseteq Nat /\ IsFiniteSet(Rule)
      /\ MaxChainRules \in Nat
  BY Types, Numbers DEF IInv
<1>2. IsFiniteSet(rules)
  BY <1>1, FS_Subset
<1> DEFINE batch == First(rules, MaxChainRules)
<1>3. batch \subseteq rules
  BY DEF First
<1>4. /\ t.from = s.from /\ t.to = s.to /\ t.lastId = s.lastId /\ t.lastRule = s.lastRule
      /\ t.batch = batch /\ s.lastId = 0
  BY DEF CycleState, WindowInv
<1>5. t \in CycleState
  BY <1>1, <1>3 DEF CycleState
<1>6. WindowInv(t)
  BY <1>3, <1>4 DEF WindowInv
<1>7. JudgedInv(t)
  <2>1. \A b \in Ban : ~ (b <= 0)
    BY Numbers
  <2>. QED
    BY <1>4, <2>1 DEF JudgedInv, ToSettle
<1>8. BatchInv(t)
  <2> SUFFICES ASSUME NEW r \in active, batch # {}, r > s.lastRule, r <= Max(batch)
               PROVE  r \in batch
    BY <1>4 DEF BatchInv
  <2>1. r \in rules
    OBVIOUS
  <2>2. rules \subseteq Nat
    BY <1>1
  <2>. QED
    BY <1>1, <1>2, <2>1, <2>2, FirstBelow
<1>. QED
  BY <1>5, <1>6, <1>7, <1>8

\* The bans that a tick reads: a ban that is older than the overlap when the
\* window ends is committed.
LEMMA AnchorsRead ==
  ASSUME IInv, NEW s, s \in CycleState, WindowInv(s), NEW window, NEW anchors,
         window = {b \in stored : created[b] >= s.from /\ created[b] <= s.to /\ b > s.lastId},
         anchors = First(window, MaxBanAnchors),
         NEW b \in Ban, created[b] >= s.from, created[b] + RecheckMinutes < s.to, b > s.lastId,
         Cardinality(anchors) < MaxBanAnchors \/ b <= Max(anchors)
  PROVE  b \in anchors
<1>1. /\ TypeOK /\ BansInv /\ stored \subseteq Ban /\ open \subseteq Ban
      /\ Ban \subseteq Nat /\ IsFiniteSet(Ban) /\ MaxBanAnchors \in Nat \ {0}
      /\ created[b] \in Int /\ now \in Int /\ RecheckMinutes \in Nat
  BY Types, Numbers DEF IInv
<1>2. s.from \in Int /\ s.to \in Int /\ s.from >= None /\ s.from # None /\ s.to <= now
  <2>1. s.from \in None..MaxTime /\ s.to \in None..MaxTime
    BY DEF CycleState
  <2>2. s.from \in Int /\ s.to \in Int /\ s.from >= None
    BY <2>1, Numbers
  <2>. QED
    BY <2>2 DEF WindowInv
<1>3. created[b] # None
  BY <1>1, <1>2, Numbers
<1>4. b \notin open
  BY <1>1, <1>2 DEF BansInv
<1>5. b \in stored
  BY <1>1, <1>3, <1>4 DEF BansInv
<1>6. created[b] <= s.to
  BY <1>1, <1>2
<1>7. b \in window
  BY <1>5, <1>6
<1>8. window \subseteq Ban
  BY <1>1
<1>9. IsFiniteSet(window) /\ window \subseteq Nat
  BY <1>1, <1>8, FS_Subset
<1>10. CASE Cardinality(anchors) < MaxBanAnchors
  BY <1>1, <1>7, <1>9, <1>10, FirstAll
<1>11. CASE ~ (Cardinality(anchors) < MaxBanAnchors)
  <2>1. anchors # {}
    <3>1. Cardinality({}) = 0
      BY FS_EmptySet
    <3>. QED
      BY <1>1, <1>11, <3>1
  <2>. QED
    BY <1>1, <1>7, <1>9, <1>11, <2>1, FirstBelow
<1>. QED
  BY <1>10, <1>11

LEMMA ReadTickKeeps ==
  ASSUME IInv, ReadTick
  PROVE  IInv'
<1> DEFINE s == Resumed
           rules == {r \in active : r > s.lastRule}
           window == {b \in stored : created[b] >= s.from /\ created[b] <= s.to /\ b > s.lastId}
           anchors == First(window, MaxBanAnchors)
           t == IF s.batch = {} THEN [s EXCEPT !.batch = First(rules, MaxChainRules)] ELSE s
<1>1. /\ TypeOK /\ BansInv /\ CutoffInv /\ WindowsInv /\ JudgementsInv /\ BatchesInv /\ SettledInv
  BY DEF IInv
<1>2. /\ tick' = [running |-> TRUE, remaining |-> rules, anchors |-> anchors, at |-> now, state |-> t]
      /\ UNCHANGED <<now, active, since, created, stored, open, cycle, cutoff, judged, began, changes>>
  BY DEF ReadTick
<1>3. s \in CycleState /\ WindowInv(s) /\ JudgedInv(s) /\ BatchInv(s)
  BY ResumedWindow
<1>4. t \in CycleState /\ WindowInv(t) /\ JudgedInv(t) /\ BatchInv(t)
  <2>1. CASE s.batch = {}
    <3> HIDE DEF s
    <3>1. t = [s EXCEPT !.batch = First(rules, MaxChainRules)]
      BY <2>1
    <3> HIDE DEF t, rules
    <3>2. rules = {r \in active : r > s.lastRule}
      BY DEF rules
    <3>. QED
      BY <1>3, <2>1, <3>1, <3>2, BatchedWindow
  <2>2. CASE s.batch # {}
    BY <1>3, <2>2
  <2>. QED
    BY <2>1, <2>2
<1>5. t.from = s.from /\ t.to = s.to /\ t.lastId = s.lastId /\ t.lastRule = s.lastRule
  <2> HIDE DEF s
  <2>. QED
    BY <1>3 DEF CycleState
<1>6. rules \subseteq Rule /\ anchors \subseteq Ban /\ now \in Time /\ now \in Int
  <2>1. window \subseteq stored /\ anchors \subseteq window /\ rules \subseteq active
    BY DEF First
  <2>. QED
    BY <1>1, <2>1, Types DEF TypeOK
<1>7. \A b \in Ban :
        /\ created[b] >= s.from /\ created[b] + RecheckMinutes < s.to /\ b > s.lastId
        /\ Cardinality(anchors) < MaxBanAnchors \/ b <= Max(anchors)
        => b \in anchors
  <2> HIDE DEF s
  <2>. QED
    BY <1>3, AnchorsRead
<1>8. \A r \in active : r > s.lastRule => r \in rules
  OBVIOUS
<1> HIDE DEF s, rules, window, anchors, t
<1>9. /\ tick'.running = TRUE /\ tick'.state = t /\ tick'.at = now
      /\ tick'.remaining = rules /\ tick'.anchors = anchors
  BY <1>2
<1>10. TypeOK'
  <2>1. tick' \in TickState
    BY <1>2, <1>4, <1>6 DEF TickState
  <2>. QED
    BY <1>1, <1>2, <2>1 DEF TypeOK
<1>11. InPlay' \subseteq InPlay \cup {t}
  BY <1>2, <1>9 DEF InPlay
<1>12. WindowsInv'
  BY <1>1, <1>2, <1>4, <1>11 DEF WindowsInv, WindowInv
<1>13. JudgementsInv'
  BY <1>1, <1>2, <1>4, <1>11 DEF JudgementsInv, JudgedInv, ToSettle
<1>14. BatchesInv'
  BY <1>1, <1>2, <1>4, <1>11 DEF BatchesInv, BatchInv
<1>15. BansInv' /\ CutoffInv' /\ SettledInv'
  BY <1>1, <1>2 DEF BansInv, CutoffInv, SettledInv
<1>16. TickInv'
  <2>1. RulesRead'
    BY <1>2, <1>5, <1>8, <1>9 DEF RulesRead
  <2>2. BansRead'
    BY <1>2, <1>5, <1>7, <1>9 DEF BansRead
  <2>3. now >= t.to /\ now <= now
    <3>1. t.to \in Time /\ t.to <= now
      BY <1>4 DEF WindowInv
    <3>. QED
      BY <1>6, <3>1, Integral
  <2>. QED
    BY <1>2, <1>9, <2>1, <2>2, <2>3 DEF TickInv
<1>. QED
  BY <1>10, <1>12, <1>13, <1>14, <1>15, <1>16 DEF IInv

\* What is committed of a running tick: every pair of a ban and a rule of its
\* batch that the window is to settle, up to the last ban that it read.
LEMMA PairsJudged ==
  ASSUME IInv, tick.running, NEW s, s = tick.state, judged' = Judged(tick.anchors, tick.remaining \cap s.batch, tick.at)
  PROVE  /\ \A b \in Ban, r \in active :
              ToSettle(s, b, r) /\ r \in s.batch /\ (b <= s.lastId \/ b \in tick.anchors) =>
                judged'[<<b, r>>] >= created[b] + RecheckMinutes
         /\ \A b \in Ban, r \in active :
              /\ created[b] + RecheckMinutes < s.to
              /\ judged[<<b, r>>] >= created[b] + RecheckMinutes
              => judged'[<<b, r>>] >= created[b] + RecheckMinutes
         /\ judged' \in [Ban \X Rule -> Time \cup {None}]
<1>1. TypeOK /\ WindowsInv /\ JudgementsInv /\ TickInv
  BY DEF IInv
<1>2. s \in InPlay
  BY DEF InPlay
<1>3. /\ WindowInv(s) /\ JudgedInv(s) /\ s.to \in Int /\ s.lastRule \in Nat
  BY <1>1, <1>2, WindowTypes DEF JudgementsInv
<1>4. /\ active \subseteq Rule /\ tick.at \in Time /\ tick.at \in Int /\ tick.at >= s.to
      /\ \A b \in Ban : created[b] + RecheckMinutes \in Int
      /\ \A r \in Rule : since[r] \in Int
  <2>1. tick.at \in Time
    BY <1>1 DEF TypeOK, TickState
  <2>. QED
    BY <1>1, <2>1, Types, Integral DEF TickInv
<1> DEFINE rules == tick.remaining \cap s.batch
<1>5. judged' = [p \in Ban \X Rule |-> IF p[1] \in tick.anchors /\ p[2] \in rules THEN tick.at ELSE judged[p]]
  BY DEF Judged
<1> HIDE DEF rules
<1>6. \A b \in Ban, r \in Rule :
        judged'[<<b, r>>] = IF b \in tick.anchors /\ r \in rules THEN tick.at ELSE judged[<<b, r>>]
  BY <1>5
<1>7. judged' \in [Ban \X Rule -> Time \cup {None}]
  BY <1>1, <1>4, <1>5 DEF TypeOK
<1>8. \A b \in Ban : created[b] + RecheckMinutes < s.to => tick.at >= created[b] + RecheckMinutes
  BY <1>3, <1>4
<1>9. ASSUME NEW b \in Ban, NEW r \in active, created[b] + RecheckMinutes < s.to,
             judged[<<b, r>>] >= created[b] + RecheckMinutes
      PROVE  judged'[<<b, r>>] >= created[b] + RecheckMinutes
  BY <1>4, <1>6, <1>8, <1>9
<1>10. ASSUME NEW b \in Ban, NEW r \in active, ToSettle(s, b, r), r \in s.batch,
              b <= s.lastId \/ b \in tick.anchors
       PROVE  judged'[<<b, r>>] >= created[b] + RecheckMinutes
  <2>1. created[b] + RecheckMinutes < s.to /\ since[r] <= created[b] + RecheckMinutes
    BY <1>10 DEF ToSettle
  <2>2. r \in rules
    <3>1. since[r] < s.to
      BY <1>3, <1>4, <2>1
    <3>2. r > s.lastRule
      BY <1>3, <1>10 DEF WindowInv
    <3>3. r \in tick.remaining
      BY <1>1, <3>1, <3>2 DEF TickInv, RulesRead
    <3>. QED
      BY <1>10, <3>3 DEF rules
  <2>3. CASE b \in tick.anchors
    BY <1>4, <1>6, <1>8, <2>1, <2>2, <2>3
  <2>4. CASE b \notin tick.anchors
    <3>1. judged[<<b, r>>] >= created[b] + RecheckMinutes
      BY <1>3, <1>10, <2>4 DEF JudgedInv
    <3>. QED
      BY <1>9, <2>1, <3>1
  <2>. QED
    BY <2>3, <2>4
<1>. QED
  BY <1>7, <1>9, <1>10

\* A batch that is drained: what its window is to settle for the rules up to its
\* end is judged.
LEMMA BatchJudged ==
  ASSUME IInv, tick.running, NEW s, s = tick.state, judged' = Judged(tick.anchors, tick.remaining \cap s.batch, tick.at),
         s.batch = {} \/ Cardinality(tick.anchors) < MaxBanAnchors,
         NEW b \in Ban, NEW r \in active, ToSettle(s, b, r), r <= BatchEnd(s)
  PROVE  judged'[<<b, r>>] >= created[b] + RecheckMinutes
<1>1. TypeOK /\ WindowsInv /\ JudgementsInv /\ BatchesInv /\ TickInv
  BY DEF IInv
<1>2. s \in InPlay
  BY DEF InPlay
<1>3. /\ WindowInv(s) /\ JudgedInv(s) /\ BatchInv(s) /\ s.to \in Int /\ s.lastRule \in Nat /\ s.lastId \in Nat
  BY <1>1, <1>2, WindowTypes DEF JudgementsInv, BatchesInv
<1>4. /\ created[b] >= s.from /\ created[b] + RecheckMinutes < s.to
      /\ since[r] <= created[b] + RecheckMinutes
  BY DEF ToSettle
<1>5. r \in Nat /\ b \in Nat /\ since[r] \in Int /\ created[b] + RecheckMinutes \in Int
  BY <1>1, Types, Integral
<1>6. CASE r <= s.lastRule
  <2>1. judged[<<b, r>>] >= created[b] + RecheckMinutes
    BY <1>3, <1>6 DEF JudgedInv
  <2>. QED
    BY <1>4, <2>1, PairsJudged
<1>7. CASE r > s.lastRule
  <2>1. s.batch # {} /\ r <= Max(s.batch)
    BY <1>3, <1>5, <1>7 DEF BatchEnd
  <2>2. r \in s.batch
    BY <1>3, <1>4, <1>5, <1>7, <2>1 DEF BatchInv
  <2>3. b <= s.lastId \/ b \in tick.anchors
    BY <1>1, <1>3, <1>4, <1>5, <2>1 DEF TickInv, BansRead
  <2>. QED
    BY <2>2, <2>3, PairsJudged
<1>. QED
  BY <1>3, <1>5, <1>6, <1>7

LEMMA CommitTickKeeps ==
  ASSUME IInv, CommitTick
  PROVE  IInv'
<1> DEFINE s == tick.state
           drained == s.batch = {} \/ Cardinality(tick.anchors) < MaxBanAnchors
           completed == drained /\ \A r \in tick.remaining : r <= BatchEnd(s)
<1>1. /\ TypeOK /\ BansInv /\ CutoffInv /\ WindowsInv /\ JudgementsInv /\ BatchesInv /\ SettledInv
      /\ tick.running /\ TickInv
  BY DEF IInv, CommitTick
<1>2. /\ judged' = Judged(tick.anchors, tick.remaining \cap s.batch, tick.at)
      /\ cycle' = IF completed THEN NoCycle
                  ELSE IF drained THEN NextBatch(s)
                  ELSE [s EXCEPT !.lastId = Max(tick.anchors)]
      /\ cutoff' = IF completed THEN s.to ELSE cutoff
      /\ began' = IF began = None THEN s.from ELSE began
      /\ tick' = Idle
      /\ UNCHANGED <<now, active, since, created, stored, open, changes>>
  BY DEF CommitTick
<1>3. s \in InPlay
  BY <1>1 DEF InPlay
<1>4. /\ s \in CycleState /\ s.from \in Int /\ s.to \in Int /\ s.to <= now /\ s.lastId \in Nat
      /\ s.lastRule \in Nat /\ s.lastRule \in Rule \cup {0} /\ s.batch \subseteq Rule
      /\ WindowInv(s) /\ JudgedInv(s) /\ BatchInv(s)
  BY <1>1, <1>3, WindowTypes DEF JudgementsInv, BatchesInv
<1>5. /\ now \in Int /\ cutoff \in Int /\ began \in Int /\ active \subseteq Rule
      /\ \A b \in Ban : created[b] \in Int /\ created[b] + RecheckMinutes \in Int
      /\ \A r \in Rule : since[r] \in Int /\ r \in Nat
      /\ RecheckMinutes \in Nat
  BY <1>1, Types, Numbers, Integral
<1>6. /\ \A b \in Ban, r \in active :
           ToSettle(s, b, r) /\ r \in s.batch /\ (b <= s.lastId \/ b \in tick.anchors) =>
             judged'[<<b, r>>] >= created[b] + RecheckMinutes
      /\ \A b \in Ban, r \in active :
           /\ created[b] + RecheckMinutes < s.to
           /\ judged[<<b, r>>] >= created[b] + RecheckMinutes
           => judged'[<<b, r>>] >= created[b] + RecheckMinutes
      /\ judged' \in [Ban \X Rule -> Time \cup {None}]
  BY <1>1, <1>2, PairsJudged
<1>7. drained => \A b \in Ban, r \in active :
        ToSettle(s, b, r) /\ r <= BatchEnd(s) => judged'[<<b, r>>] >= created[b] + RecheckMinutes
  BY <1>1, <1>2, BatchJudged
<1>8. BatchEnd(s) \in Rule \cup {0}
  <2>1. CASE s.batch = {}
    BY <1>4, <2>1 DEF BatchEnd
  <2>2. CASE s.batch # {}
    <3>1. IsFiniteSet(s.batch) /\ s.batch \subseteq Nat
      BY <1>4, Numbers, FS_Subset
    <3>2. Max(s.batch) \in s.batch
      BY <2>2, <3>1, MaxInSet
    <3>. QED
      BY <1>4, <2>2, <3>2 DEF BatchEnd
  <2>. QED
    BY <2>1, <2>2
<1>9. ~drained => Max(tick.anchors) \in Ban /\ s.batch # {}
  <2> SUFFICES ASSUME ~drained PROVE Max(tick.anchors) \in Ban /\ s.batch # {}
    OBVIOUS
  <2>1. tick.anchors \subseteq Ban
    BY <1>1 DEF TypeOK, TickState
  <2>2. IsFiniteSet(tick.anchors) /\ tick.anchors \subseteq Nat
    BY <2>1, Numbers, FS_Subset
  <2>3. tick.anchors # {}
    <3>1. Cardinality({}) = 0
      BY FS_EmptySet
    <3>. QED
      BY <3>1, Numbers
  <2>. QED
    BY <2>1, <2>2, <2>3, MaxInSet
<1>10. s.from # None /\ s.to \in Time
  BY <1>4 DEF WindowInv
<1>11. Idle \in TickState /\ Idle.running = FALSE /\ tick'.running = FALSE
  BY <1>2, InitTypes DEF Idle
<1> HIDE DEF s, drained, completed
<1>12. PICK n : n = IF drained THEN NextBatch(s) ELSE [s EXCEPT !.lastId = Max(tick.anchors)]
  OBVIOUS
<1>13. /\ n \in CycleState /\ n.from = s.from /\ n.to = s.to
       /\ drained => n.lastRule = BatchEnd(s) /\ n.lastId = 0 /\ n.batch = {}
       /\ ~drained => /\ n.lastRule = s.lastRule /\ n.lastId = Max(tick.anchors)
                      /\ n.batch = s.batch
  <2>1. CASE drained
    BY <1>4, <1>8, <1>12, <2>1 DEF NextBatch, CycleState
  <2>2. CASE ~drained
    BY <1>4, <1>9, <1>12, <2>2 DEF CycleState
  <2>. QED
    BY <2>1, <2>2
<1>14. n # NoCycle
  BY <1>10, <1>13 DEF NoCycle
<1>15. /\ completed => cycle' = NoCycle /\ cutoff' = s.to /\ InPlay' = {}
       /\ ~completed => cycle' = n /\ cutoff' = cutoff /\ InPlay' = {n}
  BY <1>2, <1>11, <1>12, <1>14 DEF InPlay
<1>16. began' # None /\ began' \in None..MaxTime
  <2>1. s.from \in None..MaxTime /\ began \in None..MaxTime
    BY <1>1, <1>4 DEF CycleState, TypeOK
  <2>. QED
    BY <1>2, <1>10, <2>1
<1>17. TypeOK'
  <2>1. cycle' \in CycleState /\ cutoff' \in Time \cup {None}
    BY <1>1, <1>10, <1>13, <1>15, InitTypes DEF TypeOK
  <2>. QED
    BY <1>1, <1>2, <1>6, <1>11, <1>16, <2>1 DEF TypeOK
<1>18. BansInv'
  BY <1>1, <1>2 DEF BansInv
<1>19. CutoffInv'
  <2>1. s.to # None
    BY <1>10, Numbers
  <2>. QED
    BY <1>1, <1>2, <1>4, <1>14, <1>15, <1>16, <2>1 DEF CutoffInv
<1>20. WindowsInv'
  <2> SUFFICES ASSUME ~completed PROVE WindowInv(n)'
    BY <1>15 DEF WindowsInv
  <2>1. IF cutoff = None THEN began' \in {None, s.from} ELSE s.from = cutoff - RecheckMinutes
    BY <1>2, <1>4 DEF WindowInv
  <2>. QED
    BY <1>2, <1>4, <1>9, <1>13, <1>15, <2>1 DEF WindowInv
<1>21. JudgementsInv'
  <2> SUFFICES ASSUME ~completed PROVE JudgedInv(n)'
    BY <1>15 DEF JudgementsInv
  <2> SUFFICES ASSUME NEW b \in Ban, NEW r \in active, ToSettle(n, b, r),
                      r <= n.lastRule \/ (r \in n.batch /\ b <= n.lastId)
               PROVE  judged'[<<b, r>>] >= created[b] + RecheckMinutes
    BY <1>2 DEF JudgedInv, ToSettle
  <2>1. ToSettle(s, b, r)
    BY <1>13 DEF ToSettle
  <2>2. CASE drained
    BY <1>7, <1>13, <2>1, <2>2
  <2>3. CASE ~drained
    <3>1. CASE r <= s.lastRule
      <4>1. judged[<<b, r>>] >= created[b] + RecheckMinutes
        BY <1>4, <2>1, <3>1 DEF JudgedInv
      <4>. QED
        BY <1>6, <2>1, <4>1 DEF ToSettle
    <3>2. CASE r \in s.batch /\ b <= Max(tick.anchors)
      <4>1. b <= s.lastId \/ b > s.lastId
        BY <1>4, Integral
      <4>2. b > s.lastId => b \in tick.anchors
        BY <1>1, <2>1, <3>2 DEF TickInv, BansRead, ToSettle, s
      <4>. QED
        BY <1>6, <2>1, <3>2, <4>1, <4>2
    <3>. QED
      BY <1>13, <2>3, <3>1, <3>2
  <2>. QED
    BY <2>2, <2>3
<1>22. BatchesInv'
  <2> SUFFICES ASSUME ~completed PROVE BatchInv(n)'
    BY <1>15 DEF BatchesInv
  <2>1. CASE drained
    BY <1>13, <2>1 DEF BatchInv
  <2>2. CASE ~drained
    BY <1>2, <1>4, <1>13, <2>2 DEF BatchInv
  <2>. QED
    BY <2>1, <2>2
\* What a completed window was not to settle was before it, and settled already.
<1>23. SettledInv'
  <2> SUFFICES ASSUME NEW b \in Ban, NEW r \in active, created[b] >= began',
                      cutoff' > created[b] + RecheckMinutes, since[r] <= created[b] + RecheckMinutes
               PROVE  judged'[<<b, r>>] >= created[b] + RecheckMinutes
    BY <1>2 DEF SettledInv
  <2>1. cutoff <= s.to
    BY <1>4 DEF WindowInv
  <2>2. created[b] >= None
    <3>1. created[b] \in Time \cup {None}
      BY <1>1 DEF TypeOK
    <3>. QED
      BY <3>1, Integral
  <2>3. CASE cutoff > created[b] + RecheckMinutes
    <3>1. cutoff # None
      BY <1>5, <2>2, <2>3, Numbers
    <3>2. began' = began
      BY <1>1, <1>2, <3>1 DEF CutoffInv
    <3>3. judged[<<b, r>>] >= created[b] + RecheckMinutes
      BY <1>1, <2>3, <3>2 DEF SettledInv
    <3>4. created[b] + RecheckMinutes < s.to
      BY <1>4, <1>5, <2>1, <2>3
    <3>. QED
      BY <1>6, <3>3, <3>4
  <2>4. CASE ~ (cutoff > created[b] + RecheckMinutes)
    <3>1. completed /\ created[b] + RecheckMinutes < s.to
      BY <1>4, <1>5, <1>15, <2>4
    <3>2. created[b] >= s.from
      <4>1. CASE cutoff = None
        <5>1. began' = s.from
          BY <1>2, <1>4, <4>1 DEF WindowInv
        <5>. QED
          BY <5>1
      <4>2. CASE cutoff # None
        <5>1. s.from = cutoff - RecheckMinutes
          BY <1>4, <4>2 DEF WindowInv
        <5>. QED
          BY <1>5, <2>4, <5>1
      <4>. QED
        BY <4>1, <4>2
    <3>3. ToSettle(s, b, r)
      BY <3>1, <3>2 DEF ToSettle
    <3>4. r <= BatchEnd(s)
      <4>1. since[r] < s.to
        BY <1>4, <1>5, <3>1
      <4>2. CASE r > s.lastRule
        BY <1>1, <3>1, <4>1, <4>2 DEF TickInv, RulesRead, s, completed
      <4>3. CASE r <= s.lastRule
        <5>1. s.lastRule <= BatchEnd(s)
          <6>1. CASE s.batch = {}
            BY <1>4, <6>1 DEF BatchEnd
          <6>2. CASE s.batch # {}
            <7>1. IsFiniteSet(s.batch) /\ s.batch \subseteq Nat
              BY <1>4, Numbers, FS_Subset
            <7>2. Max(s.batch) \in s.batch /\ Max(s.batch) \in Nat
              BY <6>2, <7>1, MaxInSet
            <7>3. Max(s.batch) > s.lastRule
              BY <1>4, <7>2 DEF WindowInv
            <7>. QED
              BY <1>4, <6>2, <7>2, <7>3 DEF BatchEnd
          <6>. QED
            BY <6>1, <6>2
        <5>. QED
          BY <1>4, <1>5, <1>8, <4>3, <5>1, Integral
      <4>. QED
        BY <1>4, <1>5, <4>2, <4>3
    <3>. QED
      BY <1>7, <3>1, <3>3, <3>4 DEF completed
  <2>. QED
    BY <2>3, <2>4
<1>. QED
  BY <1>11, <1>17, <1>18, <1>19, <1>20, <1>21, <1>22, <1>23 DEF IInv

(***************************************************************************)
(* The theorems                                                            *)
(***************************************************************************)
LEMMA StepKeeps == IInv /\ [Next]_vars => IInv'
<1> SUFFICES ASSUME IInv, [Next]_vars PROVE IInv'
  OBVIOUS
<1>1. ASSUME NEW b \in Ban, StoreBan(b) PROVE IInv'
  BY <1>1, StoreBanKeeps
<1>2. ASSUME NEW r \in Rule, ChangeRule(r) PROVE IInv'
  BY <1>2, ChangeRuleKeeps
<1>3. CASE Minute \/ CommitBans \/ UNCHANGED vars
  BY <1>3, MinuteKeeps, CommitBansKeeps, StutterKeeps
<1>4. CASE ReadTick \/ CommitTick \/ LoseTick
  BY <1>4, ReadTickKeeps, CommitTickKeeps, LoseTickKeeps
<1>. QED
  BY <1>1, <1>2, <1>3, <1>4 DEF Next

\* In every state of the Level 2 cycle: its types, where its window starts and
\* ends, and that the batches so far, the batch that is under way up to its last
\* ban, and the completed windows are judged.
THEOREM Invariance == Spec => []IInv
<1>. QED
  BY InitIInv, StepKeeps, PTL DEF Spec

\* The cycle of insight_correlation.py judges every ban for every rule that was
\* active, once the ban is older than the overlap, for every size of the batches
\* of bans and rules, every overlap, and whatever is committed late, lost or
\* switched between its ticks.
THEOREM AllJudged == Spec => []BansJudgedWhenSettled
<1>1. IInv => BansJudgedWhenSettled
  <2> SUFFICES ASSUME IInv PROVE BansJudgedWhenSettled
    OBVIOUS
  <2>1. stored \subseteq Ban
    BY DEF IInv, TypeOK
  <2>. QED
    BY <2>1 DEF IInv, SettledInv, BansJudgedWhenSettled
<1>. QED
  BY <1>1, Invariance, PTL
=============================================================================
