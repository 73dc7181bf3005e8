-------------------------- MODULE ParallelRunProofs --------------------------
(***************************************************************************)
(* What the parallel run's judgement of a night is worth, for any tables,  *)
(* reports, faults and length of the run.                                  *)
(*                                                                         *)
(* The properties speak of the comparison, at the end of a night; what it  *)
(* finds depends on all that happened to the copy before. So the invariant *)
(* follows the copy through every step: behind the window of the next load *)
(* it holds every row the job at work loads, in the version Postgres has   *)
(* and with what that job makes of it (CopyFollows), and on a night        *)
(* without mishaps everything up to that night (CopyIsTonights), but for   *)
(* the row of a planted fault.                                             *)
(*                                                                         *)
(* Then the document to be signed recommends a cutover that is earned. The *)
(* streak is counted along the nights, so what it says of them needs an    *)
(* induction over the nights; what a result says is kept from the night it *)
(* was given to the end of the run (ResultsAreTrue).                       *)
(***************************************************************************)
EXTENDS ParallelRun, NumberLemmas

Pc == {"day", "repair", "freeze", "freezing", "copy", "plant", "write", "build", "compare",
       "raised", "done"}

\* The night's load is done.
Loaded == {"plant", "write", "build", "compare"}

\* It is to come, and the next day's first rows have arrived.
Unloaded == {"repair", "freeze", "freezing", "copy"}
WrittenOn == {"build", "compare", "day", "raised", "done"}

\* The copy is the fixed job's: it was emptied and reloaded on fixNight.
Fixed == night > fixNight \/ (night = fixNight /\ pc \notin Unloaded)

\* The row of the fault that stands, what the job at work makes of a row, and the rows it
\* does not load.
Off == {<<p.table, p.key>> : p \in planted}
WrongOf(r) == IF Fixed THEN {} ELSE {d \in Defect : <<r[1], r[2], d[1], d[2]>> \in Defects}
LeftOut == IF Fixed THEN {} ELSE Lost

Stored == [at : Nat, bad : SUBSET Defect]

\* The faults that may stand.
OnCells == [table : Table, key : Key, column : Column, class : CellClass]
OnRows == [table : Table, key : Key, column : {""}, class : {"missing_in_target"}]
Inventing == [table : Table, key : {INVENTED_KEYS}, column : {""}, class : {"extra_in_target"}]

Types ==
    /\ night \in 0..Nights /\ fixNight \in 1..(Nights + 1) /\ logic \subseteq Logic /\ pc \in Pc
    /\ legacy \in [DOMAIN legacy -> Nat] /\ DOMAIN legacy \subseteq Row
    /\ raw \in [DOMAIN raw -> Stored] /\ DOMAIN raw \subseteq Table \X (Key \cup {INVENTED_KEYS})
    /\ watermark \in [Table -> Nat]
    /\ frozen = [r \in Report |-> frozen[r]]
    /\ Cardinality(planted) <= 1 /\ IsFiniteSet(planted)
    /\ planted \subseteq OnCells \cup OnRows \cup Inventing

\* Nothing is stamped later than the first rows of the next day, which come after the copy.
Times ==
    /\ \A r \in DOMAIN legacy : /\ legacy[r] <= RunAt + 1
                                /\ pc \notin WrittenOn => legacy[r] <= RunAt
    /\ \A r \in DOMAIN raw : raw[r].at <= RunAt
    /\ \A t \in Table : watermark[t] <= RunAt

\* A fault is repaired before the next day's copy, and falls on a row that Postgres has,
\* or on none.
FaultsAreRepaired ==
    /\ pc \in {"freeze", "freezing", "copy", "plant"} => planted = {}
    /\ \A p \in planted : p.key # INVENTED_KEYS => <<p.table, p.key>> \in DOMAIN legacy
    /\ planted # {} => Fixed

\* What the copy holds is a row of Postgres in a version it had, with what the job makes of
\* it, or a fault.
CopyIsOfRows ==
    \A r \in DOMAIN raw :
        /\ r[2] = INVENTED_KEYS => r \in Off /\ raw[r].at = 0
        /\ r[2] # INVENTED_KEYS => /\ r \in DOMAIN legacy \ LeftOut
                                   /\ raw[r].at <= legacy[r]
        /\ r \notin Off => raw[r].bad = WrongOf(r)

\* A row that was written after the night's load is not in the copy.
NothingNewer ==
    pc \in Loaded => \A r \in DOMAIN raw \cup Off : r[2] # INVENTED_KEYS => legacy[r] <= RunAt

\* Behind the window of the next load nothing is missing or old.
CopyFollows ==
    \A r \in DOMAIN legacy \ (LeftOut \cup Off) :
        legacy[r] <= watermark[r[1]] - Overlap => r \in DOMAIN raw /\ raw[r].at = legacy[r]

\* On a night on which nothing went wrong outside, the copy is that of everything up to it.
CopyIsTonights ==
    pc \in Loaded /\ ~late =>
        /\ \A t \in Table : watermark[t] = RunAt
        /\ \A r \in DOMAIN legacy \ (LeftOut \cup Off) :
               legacy[r] <= RunAt => r \in DOMAIN raw /\ raw[r].at = legacy[r]

\* A planted fault is there: the row is missing, the cell is wrong, the row is invented;
\* and nothing else of its row is.
FaultStands ==
    \A p \in planted :
        LET r == <<p.table, p.key>>
        IN  /\ p.class = "missing_in_target" => r \notin DOMAIN raw
            /\ p.class = "extra_in_target" => r \in DOMAIN raw /\ raw[r].bad = {}
            /\ p.class \in CellClass =>
                   /\ r \in DOMAIN raw /\ raw[r].bad = {<<p.column, p.class>>}
                   /\ pc \in Loaded /\ ~late => raw[r].at = legacy[r]

\* The reports are frozen from the one snapshot, of what Postgres had before the copy.
Upto == [r \in {r \in DOMAIN legacy : legacy[r] <= RunAt} |-> legacy[r]]

FrozenTogether ==
    /\ pc = "freezing" => /\ \A r \in Report : frozen[r] \in {<<>>, snapshot}
                          /\ ~late => snapshot = legacy
    /\ pc # "freezing" => \A r, s \in Report : frozen[r] = frozen[s]
    /\ pc \in Loaded \cup {"copy"} /\ ~late => \A r \in Report : frozen[r] = Upto

MartsAreRaw ==
    /\ pc = "compare" => marts = raw
    /\ \A r \in DOMAIN marts : /\ r \in Table \X (Key \cup {INVENTED_KEYS})
                               /\ marts[r].at \in 0..(2 * Nights) /\ marts[r].bad \subseteq Defect

\* The parts that speak of the copy, and of what is frozen and built from it.
CopyInv ==
    /\ Types /\ Times /\ FaultsAreRepaired /\ CopyIsOfRows /\ NothingNewer /\ CopyFollows /\ CopyIsTonights
    /\ FaultStands

IInv == CopyInv /\ FrozenTogether /\ MartsAreRaw

-----------------------------------------------------------------------------
(* The operators the steps are made of.                                    *)

LEMMA OverTyped ==
    ASSUME NEW S, NEW f, NEW g, f \in [DOMAIN f -> S], g \in [DOMAIN g -> S]
    PROVE  Over(f, g) \in [DOMAIN Over(f, g) -> S]
BY DEF Over

\* What is used of the constants.
LEMMA Constants ==
    /\ Nights \in Nat /\ Overlap \in Nat /\ Overlap > 0 /\ MaxLag \in Nat /\ MinRate \in 0..100
    /\ FixAfter \subseteq Nat \ {0}
    /\ History \subseteq Row /\ Changing \subseteq Row /\ Coming \subseteq Row /\ Lost \subseteq Row
<1>1. {Overlap, MaxLag, Nights, MaxMishaps} \subseteq Nat /\ MinRate \in 0..100
      /\ FixAfter \subseteq Nat \ {0} /\ History \cup Changing \cup Coming \cup Lost \subseteq Row
  BY ParallelAssumption
<1>2. Overlap > 0
  BY SettingsAssumption
<1> QED
  BY <1>1, <1>2

\* No row of Postgres has an invented key.
LEMMA Invented == INVENTED_KEYS \in Nat
BY SMT DEF INVENTED_KEYS

LEMMA RealKeys ==
    \A r \in Row : /\ r \in Table \X (Key \cup {INVENTED_KEYS}) /\ r[2] # INVENTED_KEYS
                    /\ r = <<r[1], r[2]>> /\ r[1] \in Table /\ r[2] \in Key
<1>1. INVENTED_KEYS \notin Key
  BY Invented, ParallelAssumption
<1> QED
  BY <1>1 DEF Row

\* A row as a job writes it.
LEMMA CopiedIsStored ==
    ASSUME NEW r, NEW asDelivered \in BOOLEAN, legacy[r] \in Nat
    PROVE  /\ Copied(r, asDelivered) \in Stored
           /\ Copied(r, asDelivered).at = legacy[r]
           /\ asDelivered = ~Fixed => Copied(r, asDelivered).bad = WrongOf(r)
BY DEF Copied, Stored, WrongOf

LEMMA SmallSets ==
    ASSUME NEW rows, NEW s \in AtMostOne(rows)
    PROVE  s \subseteq rows
BY DEF AtMostOne

-----------------------------------------------------------------------------
(* The first day.                                                          *)

LEMMA InitIInv == Init => IInv
<1> SUFFICES ASSUME Init PROVE IInv
  OBVIOUS
<1>1. /\ night = 0 /\ pc = "day" /\ planted = {} /\ fixNight \in 1..(Nights + 1) /\ ~Fixed /\ Off = {}
      /\ LeftOut = Lost /\ Nights \in Nat /\ RunAt = 0
  <2>1. PICK n \in FixAfter : fixNight = IF n < Nights THEN 1 + n ELSE 1 + Nights
    BY DEF Init
  <2>2. night = 0 /\ pc = "day" /\ planted = {}
    BY DEF Init
  <2>3. fixNight \in 1..(Nights + 1)
    BY <2>1, Constants
  <2> QED
    BY <2>2, <2>3, Constants DEF Fixed, Unloaded, Off, LeftOut, RunAt
<1>2. /\ legacy = [r \in History \cup Changing |-> 0] /\ DOMAIN legacy = History \cup Changing
      /\ DOMAIN legacy \subseteq Row /\ \A r \in DOMAIN legacy : legacy[r] = 0
  BY Constants DEF Init
<1>3. /\ raw = [r \in DOMAIN legacy \ Lost |-> Copied(r, TRUE)] /\ DOMAIN raw = DOMAIN legacy \ Lost
      /\ \A r \in DOMAIN raw : raw[r] \in Stored /\ raw[r].at = 0 /\ raw[r].bad = WrongOf(r)
  <2>1. raw = [r \in DOMAIN legacy \ Lost |-> Copied(r, TRUE)]
    BY <1>2 DEF Init
  <2>2. \A r \in DOMAIN legacy : /\ Copied(r, TRUE) \in Stored /\ Copied(r, TRUE).at = 0
                                  /\ Copied(r, TRUE).bad = WrongOf(r)
    BY <1>1, <1>2, CopiedIsStored
  <2> QED
    BY <2>1, <2>2
<1>4. \A r \in Row : r \in Table \X (Key \cup {INVENTED_KEYS}) /\ r[2] # INVENTED_KEYS
  BY RealKeys
<1>5. Types
  <2>1. IsFiniteSet(planted) /\ Cardinality(planted) = 0
    BY <1>1, FS_EmptySet
  <2>2. legacy \in [DOMAIN legacy -> Nat] /\ raw \in [DOMAIN raw -> Stored]
    BY <1>2, <1>3
  <2>3. DOMAIN raw \subseteq Table \X (Key \cup {INVENTED_KEYS})
    BY <1>2, <1>3, <1>4
  <2>4. watermark \in [Table -> Nat] /\ frozen = [r \in Report |-> frozen[r]] /\ logic \subseteq Logic
    BY DEF Init
  <2> QED
    BY <1>1, <1>2, <2>1, <2>2, <2>3, <2>4 DEF Types, Pc
<1>6. Times /\ FaultsAreRepaired /\ FaultStands /\ NothingNewer /\ CopyIsTonights
  <2>1. Times
    <3>1. \A r \in DOMAIN raw : raw[r].at <= RunAt
      <4>1. \A r \in DOMAIN raw : raw[r].at = 0
        BY <1>3
      <4> QED
        BY <1>1, <4>1
    <3>2. \A t \in Table : watermark[t] = 0
      BY DEF Init
    <3>3. \A r \in DOMAIN legacy : legacy[r] <= RunAt /\ legacy[r] <= RunAt + 1
      BY <1>1, <1>2
    <3> QED
      BY <1>1, <3>1, <3>2, <3>3 DEF Times
  <2>2. pc \notin Loaded
    BY <1>1 DEF Loaded
  <2> QED
    BY <1>1, <2>1, <2>2 DEF FaultsAreRepaired, FaultStands, NothingNewer, CopyIsTonights
<1>7. CopyIsOfRows /\ CopyFollows
  <2>1. CopyIsOfRows
    <3> SUFFICES ASSUME NEW r \in DOMAIN raw
                 PROVE  /\ r[2] # INVENTED_KEYS /\ r \in DOMAIN legacy \ LeftOut
                        /\ raw[r].at <= legacy[r] /\ raw[r].bad = WrongOf(r)
      BY DEF CopyIsOfRows
    <3>1. r \in DOMAIN legacy /\ r \notin Lost /\ raw[r].at = 0 /\ legacy[r] = 0
      BY <1>2, <1>3
    <3>2. raw[r].bad = WrongOf(r)
      BY <1>3
    <3>3. r[2] # INVENTED_KEYS
      BY <1>2, <1>4, <3>1
    <3> QED
      BY <1>1, <3>1, <3>2, <3>3
  <2>2. CopyFollows
    BY <1>1, <1>2, <1>3 DEF CopyFollows
  <2> QED
    BY <2>1, <2>2
<1>8. FrozenTogether
  <2>1. frozen = [r \in Report |-> <<>>]
    BY DEF Init
  <2> QED
    BY <1>1, <2>1 DEF FrozenTogether, Loaded
<1>9. MartsAreRaw
  <2>1. marts = raw
    BY DEF Init
  <2>2. \A r \in DOMAIN raw : r \in Table \X (Key \cup {INVENTED_KEYS})
    BY <1>2, <1>3, <1>4
  <2>3. \A r \in DOMAIN raw : raw[r].at \in 0..(2 * Nights) /\ raw[r].bad \subseteq Defect
    <3>1. \A r \in DOMAIN raw : raw[r].at = 0 /\ raw[r].bad \subseteq Defect
      BY <1>3 DEF Stored
    <3>2. 0 \in 0..(2 * Nights)
      BY <1>1
    <3> QED
      BY <3>1, <3>2
  <2> QED
    BY <1>1, <2>1, <2>2, <2>3, SMT DEF MartsAreRaw
<1> QED
  BY <1>5, <1>6, <1>7, <1>8, <1>9 DEF IInv, CopyInv

-----------------------------------------------------------------------------
(* The steps that touch neither Postgres nor the copy.                     *)

LEMMA QuietCopy ==
    ASSUME CopyInv, UNCHANGED <<night, fixNight, logic, legacy, raw, watermark, planted>>,
           pc' \in Pc, Fixed' <=> Fixed, frozen' = [r \in Report |-> frozen'[r]],
           pc' \in Loaded => pc \in Loaded /\ (late => late'),
           pc' \in {"freeze", "freezing", "copy", "plant"} => planted = {},
           pc' \notin WrittenOn => pc \notin WrittenOn
    PROVE  CopyInv'
<1>1. Off' = Off /\ LeftOut' = LeftOut /\ RunAt' = RunAt /\ \A r : WrongOf(r)' = WrongOf(r)
  BY DEF Off, LeftOut, RunAt, WrongOf
<1>2. Types'
  BY DEF CopyInv, Types
<1>3. Times'
  BY <1>1 DEF CopyInv, Times
<1>4. FaultsAreRepaired'
  BY DEF CopyInv, FaultsAreRepaired
<1>5. CopyIsOfRows'
  BY <1>1 DEF CopyInv, CopyIsOfRows
<1>6. NothingNewer' /\ CopyFollows' /\ CopyIsTonights'
  BY <1>1 DEF CopyInv, NothingNewer, CopyFollows, CopyIsTonights
<1>7. FaultStands'
  BY DEF CopyInv, FaultStands
<1> QED
  BY <1>2, <1>3, <1>4, <1>5, <1>6, <1>7 DEF CopyInv

\* The reports are frozen one by one, from one snapshot.
LEMMA FreezeSteps ==
    ASSUME IInv, TakeSnapshot \/ CommitLeader \/ \E r \in Report : FreezeReport(r)
    PROVE  IInv'
<1>1. /\ UNCHANGED <<night, fixNight, logic, legacy, raw, watermark, planted, late, marts>>
      /\ <<pc, pc'>> \in {<<"freeze", "freezing">>, <<"freezing", "copy">>, <<"freezing", "freezing">>}
      /\ frozen' = [r \in Report |-> frozen'[r]]
  BY DEF TakeSnapshot, CommitLeader, FreezeReport, IInv, CopyInv, Types, fixed, outside
<1>2. CopyInv'
  <2>1. Fixed' <=> Fixed
    BY <1>1 DEF Fixed, Unloaded
  <2>2. planted = {}
    BY <1>1 DEF IInv, CopyInv, FaultsAreRepaired
  <2>3. pc' \in Pc /\ pc' \notin Loaded /\ pc \notin WrittenOn
    BY <1>1 DEF Pc, Loaded, WrittenOn
  <2> QED
    BY <1>1, <2>1, <2>2, <2>3, QuietCopy DEF IInv
<1>3. MartsAreRaw'
  BY <1>1 DEF IInv, MartsAreRaw
<1>4. FrozenTogether'
  <2>1. CASE TakeSnapshot
    BY <2>1 DEF TakeSnapshot, FrozenTogether, Loaded
  <2>2. ASSUME NEW r \in Report, FreezeReport(r) PROVE FrozenTogether'
    <3>1. /\ pc = "freezing" /\ pc' = "freezing" /\ frozen' = [frozen EXCEPT ![r] = snapshot]
          /\ UNCHANGED <<snapshot, late, legacy>>
      BY <2>2 DEF FreezeReport, outside
    <3>2. \A s \in Report : frozen'[s] \in {frozen[s], snapshot}
      BY <3>1 DEF IInv, CopyInv, Types
    <3> QED
      BY <3>1, <3>2 DEF IInv, FrozenTogether, Loaded
  <2>3. CASE CommitLeader
    <3>1. /\ pc = "freezing" /\ pc' = "copy" /\ \A r \in Report : frozen[r] # <<>>
          /\ UNCHANGED <<frozen, late, legacy, night>>
      BY <2>3 DEF CommitLeader, Frozen, outside
    <3>2. \A r \in Report : frozen'[r] = snapshot
      BY <3>1 DEF IInv, FrozenTogether
    <3>3. ASSUME ~late PROVE Upto' = snapshot
      <4>1. snapshot = legacy /\ RunAt' = RunAt
        BY <3>1, <3>3 DEF IInv, FrozenTogether, RunAt
      <4>2. \A r \in DOMAIN legacy : legacy[r] <= RunAt
        BY <3>1 DEF IInv, CopyInv, Times, WrittenOn
      <4>3. legacy = [r \in DOMAIN legacy |-> legacy[r]]
        BY DEF IInv, CopyInv, Types
      <4>4. {r \in DOMAIN legacy : legacy[r] <= RunAt} = DOMAIN legacy
        BY <4>2
      <4> QED
        BY <3>1, <4>1, <4>3, <4>4 DEF Upto
    <3> QED
      BY <3>1, <3>2, <3>3 DEF FrozenTogether
  <2> QED
    BY <2>1, <2>2, <2>3
<1> QED
  BY <1>2, <1>3, <1>4 DEF IInv

\* The night's build and judgement, and the end of the run.
LEMMA JudgeSteps ==
    ASSUME IInv, Build \/ Compare \/ CompareRaises \/ Finish \/ UNCHANGED vars
    PROVE  IInv'
<1>1. /\ UNCHANGED <<night, fixNight, logic, legacy, raw, watermark, planted, frozen, snapshot>>
      /\ \/ pc' = pc /\ late' = late /\ marts' = marts
         \/ <<pc, pc'>> \in {<<"build", "compare">>, <<"compare", "day">>, <<"compare", "raised">>, <<"day", "done">>}
      /\ pc' \in Loaded => late' = late
  BY DEF Build, Compare, CompareRaises, Finish, vars, fixed, outside, judged, Loaded
<1>2. CopyInv'
  <2>1. Fixed' <=> Fixed
    BY <1>1 DEF Fixed, Unloaded
  <2>2. /\ pc' \in {"freeze", "freezing", "copy", "plant"} => planted = {}
        /\ frozen' = [r \in Report |-> frozen'[r]]
    BY <1>1 DEF IInv, CopyInv, FaultsAreRepaired, Types
  <2>3. /\ pc' \in Pc /\ (pc' \in Loaded => pc \in Loaded)
        /\ pc' \notin WrittenOn => pc \notin WrittenOn
    BY <1>1 DEF Pc, Loaded, WrittenOn, IInv, CopyInv, Types
  <2> QED
    BY <1>1, <2>1, <2>2, <2>3, QuietCopy DEF IInv
<1>3. MartsAreRaw'
  <2>1. CASE pc' = "compare" /\ pc = "build"
    <3>1. marts' = raw /\ UNCHANGED <<raw, night>>
      BY <2>1 DEF Build, Compare, CompareRaises, Finish, vars
    <3>2. ASSUME NEW r \in DOMAIN raw
          PROVE  /\ r \in Table \X (Key \cup {INVENTED_KEYS})
                 /\ raw[r].at \in 0..(2 * Nights) /\ raw[r].bad \subseteq Defect
      <4>1. /\ r \in Table \X (Key \cup {INVENTED_KEYS})
            /\ raw[r].at \in Nat /\ raw[r].bad \subseteq Defect
        BY DEF IInv, CopyInv, Types, Stored
      <4>2. raw[r].at = 0 \/ (raw[r].at <= legacy[r] /\ legacy[r] <= RunAt /\ r \in DOMAIN legacy)
        BY <2>1 DEF IInv, CopyInv, CopyIsOfRows, NothingNewer, Loaded
      <4>3. RunAt <= 2 * Nights /\ RunAt \in Nat
        BY Constants DEF IInv, CopyInv, Types, RunAt
      <4>4. r \in DOMAIN legacy => legacy[r] \in Nat
        BY DEF IInv, CopyInv, Types
      <4>5. raw[r].at <= 2 * Nights
        BY <4>1, <4>2, <4>3, <4>4, Constants
      <4> QED
        BY <4>1, <4>5, Constants
    <3> QED
      BY <3>1, <3>2, SMT DEF MartsAreRaw
  <2>2. CASE ~(pc' = "compare" /\ pc = "build")
    <3>1. marts' = marts /\ raw' = raw /\ (pc' = "compare" => pc = "compare")
      BY <1>1, <2>2 DEF Build, Compare, CompareRaises, Finish, vars
    <3> QED
      BY <3>1 DEF IInv, MartsAreRaw
  <2> QED
    BY <2>1, <2>2
<1>4. FrozenTogether'
  <2>1. Upto' = Upto
    BY <1>1 DEF Upto, RunAt
  <2>2. /\ pc' = "freezing" <=> pc = "freezing"
        /\ pc' \in Loaded \cup {"copy"} /\ ~late' => pc \in Loaded \cup {"copy"} /\ ~late
        /\ pc' = "freezing" => late' = late
    BY <1>1 DEF Loaded
  <2> QED
    BY <1>1, <2>1, <2>2 DEF IInv, FrozenTogether
<1> QED
  BY <1>2, <1>3, <1>4 DEF IInv

-----------------------------------------------------------------------------
(* The application writes.                                                 *)

\* A fault of a cell is on a row that Postgres has.
LEMMA OnCell ==
    ASSUME CopyInv, NEW p \in planted
    PROVE  /\ p.table \in Table /\ p.key \in Key \cup {INVENTED_KEYS} /\ p.class \in Class
           /\ p.class \in CellClass => p.key \in Key /\ p.column \in Column
           /\ p.class \in RowClass => p.column = ""
           /\ p.class = "missing_in_target" => p.key \in Key
           /\ p.class = "extra_in_target" <=> p.key = INVENTED_KEYS
           /\ p.key # INVENTED_KEYS => <<p.table, p.key>> \in DOMAIN legacy
<1>1. p \in OnCells \/ p \in OnRows \/ p \in Inventing
  BY DEF CopyInv, Types
<1>2. INVENTED_KEYS \notin Key
  BY Invented, ParallelAssumption
<1>3. RowClass \subseteq Class
  BY SettingsAssumption
<1>4. p.key # INVENTED_KEYS => <<p.table, p.key>> \in DOMAIN legacy
  BY DEF CopyInv, FaultsAreRepaired
<1> QED
  BY <1>1, <1>2, <1>3, <1>4 DEF OnCells, OnRows, Inventing, CellClass, RowClass

LEMMA WritingCopy ==
    ASSUME CopyInv, NEW W, W \subseteq Row, NEW at \in Nat, legacy' = Written(W, at),
           \A r \in W \cap DOMAIN legacy : legacy[r] <= at,
           RunAt <= at, at <= RunAt' + 1,
           UNCHANGED <<fixNight, logic, raw, watermark, planted, frozen>>,
           night' \in night..Nights, pc' \in Pc, Fixed' <=> Fixed,
           pc' \notin WrittenOn => at <= RunAt' /\ \A r \in DOMAIN legacy : legacy[r] <= RunAt',
           pc' \in {"freeze", "freezing", "copy", "plant"} => planted = {},
           pc' \in Loaded => /\ pc \in Loaded /\ night' = night
                             /\ at <= RunAt \/ W \cap DOMAIN legacy = {}
                             /\ late' \/ (~late /\ at > RunAt)
    PROVE  CopyInv'
<1>1. /\ DOMAIN legacy' = DOMAIN legacy \cup W
      /\ \A r \in W : legacy'[r] = at
      /\ \A r \in DOMAIN legacy \ W : legacy'[r] = legacy[r]
  BY DEF Written, Over
<1>2. legacy' \in [DOMAIN legacy' -> Nat] /\ DOMAIN legacy' \subseteq Row
  <2>1. legacy \in [DOMAIN legacy -> Nat] /\ DOMAIN legacy \subseteq Row
    BY DEF CopyInv, Types
  <2>2. [r \in W |-> at] \in [DOMAIN [r \in W |-> at] -> Nat]
    OBVIOUS
  <2>3. legacy' \in [DOMAIN legacy' -> Nat]
    BY <2>1, <2>2, OverTyped DEF Written
  <2> QED
    BY <2>1, <2>3, <1>1
<1>3. Off' = Off /\ LeftOut' = LeftOut /\ \A r : WrongOf(r)' = WrongOf(r)
  BY DEF Off, LeftOut, WrongOf
<1>4. /\ night \in Nat /\ night' \in Nat /\ RunAt \in Nat /\ RunAt' \in Nat /\ RunAt <= RunAt'
      /\ night' = night => RunAt' = RunAt
  BY Constants DEF CopyInv, Types, RunAt
<1>5. \A r \in DOMAIN legacy : legacy[r] \in Nat /\ legacy'[r] \in Nat /\ legacy[r] <= legacy'[r]
  BY <1>1, <1>2 DEF CopyInv, Types
<1>6. \A t \in Table : watermark[t] \in Nat /\ watermark[t] <= RunAt
  BY DEF CopyInv, Types, Times
<1>7. \A r \in DOMAIN raw : r[2] # INVENTED_KEYS => r \in DOMAIN legacy
  BY DEF CopyInv, CopyIsOfRows
<1>8. Types'
  BY <1>2, Constants DEF CopyInv, Types
<1>9. Times'
  <2>1. \A r \in DOMAIN legacy : legacy[r] <= RunAt + 1
    BY DEF CopyInv, Times
  <2>2. ASSUME NEW r \in DOMAIN legacy' PROVE legacy'[r] <= RunAt' + 1
    <3>1. CASE r \in W
      BY <3>1, <1>1
    <3>2. CASE r \notin W
      <4>1. r \in DOMAIN legacy /\ legacy'[r] = legacy[r] /\ legacy[r] \in Nat
        BY <3>2, <1>1, <1>5
      <4> QED
        BY <4>1, <2>1, <1>4
    <3> QED
      BY <3>1, <3>2
  <2>3. pc' \notin WrittenOn => \A r \in DOMAIN legacy' : legacy'[r] <= RunAt'
    BY <1>1
  <2>4. \A t \in Table : watermark'[t] <= RunAt'
    BY <1>4, <1>6
  <2>5. \A r \in DOMAIN raw : raw[r].at <= RunAt'
    <3> SUFFICES ASSUME NEW r \in DOMAIN raw PROVE raw[r].at <= RunAt'
      OBVIOUS
    <3>1. raw[r].at \in Nat /\ raw[r].at <= RunAt
      BY DEF CopyInv, Types, Times, Stored
    <3> QED
      BY <1>4, <3>1
  <2> QED
    BY <2>2, <2>3, <2>4, <2>5 DEF Times
<1>10. FaultsAreRepaired'
  BY <1>1 DEF CopyInv, FaultsAreRepaired
<1>11. CopyIsOfRows'
  <2>1. \A r \in DOMAIN raw : raw[r].at \in Nat
    BY DEF CopyInv, Types, Stored
  <2>2. \A r \in DOMAIN raw : r[2] # INVENTED_KEYS => raw[r].at <= legacy'[r]
    BY <2>1, <1>5, <1>7 DEF CopyInv, CopyIsOfRows
  <2> QED
    BY <2>2, <1>1, <1>3 DEF CopyInv, CopyIsOfRows
<1>12. NothingNewer'
  <2> SUFFICES ASSUME pc' \in Loaded, NEW r \in DOMAIN raw \cup Off, r[2] # INVENTED_KEYS
               PROVE  legacy'[r] <= RunAt'
    BY <1>3 DEF NothingNewer
  <2>1. r \in DOMAIN legacy /\ legacy[r] <= RunAt
    <3>1. r \in DOMAIN legacy
      BY <1>7 DEF Off, CopyInv, FaultsAreRepaired
    <3> QED
      BY <3>1 DEF CopyInv, NothingNewer
  <2> QED
    BY <2>1, <1>1, <1>4
<1>13. CopyFollows'
  <2> SUFFICES ASSUME NEW r \in DOMAIN legacy' \ (LeftOut \cup Off),
                      legacy'[r] <= watermark[r[1]] - Overlap
               PROVE  r \in DOMAIN raw /\ raw[r].at = legacy'[r]
    BY <1>3 DEF CopyFollows
  <2>1. r \notin W
    <3>1. r[1] \in Table
      BY <1>2, RealKeys
    <3> QED
      BY <3>1, <1>1, <1>4, <1>6, Constants
  <2> QED
    BY <2>1, <1>1 DEF CopyInv, CopyFollows
<1>14. CopyIsTonights'
  <2> SUFFICES ASSUME pc' \in Loaded, ~late'
               PROVE  /\ \A t \in Table : watermark[t] = RunAt
                      /\ \A r \in DOMAIN legacy' \ (LeftOut \cup Off) :
                             legacy'[r] <= RunAt => r \in DOMAIN raw /\ raw[r].at = legacy'[r]
    BY <1>3, <1>4 DEF CopyIsTonights
  <2>1. pc \in Loaded /\ ~late /\ at > RunAt
    OBVIOUS
  <2>2. \A r \in DOMAIN legacy' : legacy'[r] <= RunAt => r \in DOMAIN legacy /\ legacy'[r] = legacy[r]
    BY <2>1, <1>1, <1>4
  <2> QED
    BY <2>1, <2>2 DEF CopyInv, CopyIsTonights
<1>15. FaultStands'
  <2>1. ASSUME NEW p \in planted, p.class \in CellClass, pc' \in Loaded, ~late'
        PROVE  raw[<<p.table, p.key>>].at = legacy'[<<p.table, p.key>>]
    <3>1. pc \in Loaded /\ ~late /\ W \cap DOMAIN legacy = {}
      BY <2>1, <1>4
    <3>2. <<p.table, p.key>> \in DOMAIN legacy
      BY <2>1, OnCell DEF CellClass, RowClass
    <3>3. raw[<<p.table, p.key>>].at = legacy[<<p.table, p.key>>]
      BY <2>1, <3>1 DEF CopyInv, FaultStands
    <3> QED
      BY <3>1, <3>2, <3>3, <1>1
  <2> QED
    BY <2>1 DEF CopyInv, FaultStands, CellClass, Class
<1> QED
  BY <1>8, <1>9, <1>10, <1>11, <1>12, <1>13, <1>14, <1>15 DEF CopyInv

\* The next day arrives; what it writes is newer than anything there was.
LEMMA ArriveStep ==
    ASSUME IInv, Arrive
    PROVE  IInv'
<1>1. /\ pc = "day" /\ night < Nights /\ night' = night + 1 /\ pc' = "repair"
      /\ UNCHANGED <<fixNight, logic, raw, watermark, planted, frozen, marts>>
  BY DEF Arrive, fixed
<1>2. night \in Nat /\ fixNight \in Nat /\ RunAt \in Nat /\ RunAt' = RunAt + 2 /\ night' \in night..Nights
      /\ RunAt' = 2 * (night + 1)
  BY <1>1, Constants DEF IInv, CopyInv, Types, RunAt
<1>3. PICK new \in AtMostOne(Coming \ DOMAIN legacy), changed \in AtMostOne(Changing) :
          legacy' = Written(new \cup changed, RunAt')
  BY <1>2 DEF Arrive
<1>4. new \cup changed \subseteq Row
  <2>1. new \subseteq Coming /\ changed \subseteq Changing
    BY <1>3, SmallSets
  <2> QED
    BY <2>1, Constants
<1>5. \A r \in DOMAIN legacy : legacy[r] \in Nat /\ legacy[r] <= RunAt + 1
  BY DEF IInv, CopyInv, Types, Times
<1>6. Fixed' <=> Fixed
  BY <1>1, <1>2 DEF Fixed, Unloaded
<1>7. pc' \in Pc /\ pc' \notin Loaded
  BY <1>1 DEF Pc, Loaded
<1>8. \A r \in DOMAIN legacy : legacy[r] <= RunAt'
  BY <1>2, <1>5
<1> DEFINE W == new \cup changed
<1> HIDE DEF W
<1>9. W \subseteq Row /\ legacy' = Written(W, RunAt')
  BY <1>3, <1>4 DEF W
<1>10. CopyInv'
  BY <1>1, <1>2, <1>6, <1>7, <1>8, <1>9, WritingCopy DEF IInv
<1>11. FrozenTogether'
  BY <1>1 DEF IInv, FrozenTogether, Loaded
<1>12. MartsAreRaw'
  BY <1>1 DEF IInv, MartsAreRaw
<1> QED
  BY <1>10, <1>11, <1>12 DEF IInv

\* The next day's first rows arrive after the copy, and are none of the copy's.
LEMMA WriteOnStep ==
    ASSUME IInv, WriteOn
    PROVE  IInv'
<1>1. /\ pc = "write" /\ pc' = "build"
      /\ UNCHANGED <<night, fixNight, logic, raw, watermark, planted, frozen, marts, late>>
  BY DEF WriteOn, fixed, outside
<1>2. RunAt \in Nat /\ RunAt' = RunAt /\ night \in Nat /\ night <= Nights /\ night' \in night..Nights
  BY <1>1, Constants DEF IInv, CopyInv, Types, RunAt
<1>3. PICK W \in AtMostOne(Coming \ DOMAIN legacy) : legacy' = Written(W, RunAt + 1)
  BY DEF WriteOn
<1>4. W \subseteq Row /\ W \cap DOMAIN legacy = {}
  <2>1. W \subseteq Coming \ DOMAIN legacy
    BY <1>3, SmallSets
  <2> QED
    BY <2>1, Constants
<1>5. Fixed' <=> Fixed
  BY <1>1 DEF Fixed, Unloaded
<1>6. pc' \in Pc /\ pc' \in WrittenOn /\ pc \in Loaded
  BY <1>1 DEF Pc, Loaded, WrittenOn
<1>7. RunAt + 1 \in Nat /\ RunAt <= RunAt + 1 /\ RunAt + 1 <= RunAt' + 1 /\ RunAt + 1 > RunAt
  BY <1>2
<1>8. CopyInv'
  BY <1>1, <1>2, <1>3, <1>4, <1>5, <1>6, <1>7, WritingCopy DEF IInv
<1>9. Upto' = Upto
  <2>1. /\ DOMAIN legacy' = DOMAIN legacy \cup W /\ \A r \in W : legacy'[r] = RunAt + 1
        /\ \A r \in DOMAIN legacy : legacy'[r] = legacy[r]
    BY <1>3, <1>4 DEF Written, Over
  <2>2. {r \in DOMAIN legacy' : legacy'[r] <= RunAt} = {r \in DOMAIN legacy : legacy[r] <= RunAt}
    BY <2>1, <1>2
  <2> QED
    BY <2>1, <2>2, <1>2 DEF Upto
<1>10. FrozenTogether'
  BY <1>1, <1>6, <1>9 DEF IInv, FrozenTogether, Loaded
<1>11. MartsAreRaw'
  BY <1>1 DEF IInv, MartsAreRaw
<1> QED
  BY <1>8, <1>10, <1>11 DEF IInv

\* A transaction commits late: its row is inside the window of the next load.
LEMMA CommitLateStep ==
    ASSUME IInv, CommitLate
    PROVE  IInv'
<1>1. /\ pc \in {"freezing", "copy", "compare"} /\ pc' = pc /\ late' = TRUE
      /\ UNCHANGED <<night, fixNight, logic, raw, watermark, planted, frozen, marts, snapshot>>
  BY DEF CommitLate, fixed
<1>2. RunAt \in Nat /\ RunAt' = RunAt /\ night \in Nat /\ night <= Nights /\ night' \in night..Nights
  BY <1>1, Constants DEF IInv, CopyInv, Types, RunAt
<1>3. PICK w \in (Coming \ DOMAIN legacy) \cup {r \in Changing : legacy[r] < RunAt} :
          legacy' = Written({w}, RunAt)
  BY DEF CommitLate
<1>4. {w} \subseteq Row /\ \A r \in {w} \cap DOMAIN legacy : legacy[r] <= RunAt
  <2>1. w \in Row /\ (w \in DOMAIN legacy => legacy[w] < RunAt)
    BY <1>3, Constants
  <2>2. w \in DOMAIN legacy => legacy[w] \in Nat
    BY DEF IInv, CopyInv, Types
  <2> QED
    BY <2>1, <2>2, <1>2
<1>5. Fixed' <=> Fixed
  BY <1>1 DEF Fixed
<1>6. /\ pc' \in Pc /\ (pc' \in {"freeze", "freezing", "copy", "plant"} => planted = {})
      /\ pc' \notin WrittenOn => \A r \in DOMAIN legacy : legacy[r] <= RunAt'
  BY <1>1, <1>2 DEF Pc, IInv, CopyInv, FaultsAreRepaired, Times
<1>7. RunAt <= RunAt /\ RunAt <= RunAt' + 1 /\ RunAt <= RunAt'
  BY <1>2
<1> DEFINE W == {w}
<1>8. W \subseteq Row /\ legacy' = Written(W, RunAt) /\ \A r \in W \cap DOMAIN legacy : legacy[r] <= RunAt
  BY <1>3, <1>4
<1> HIDE DEF W
<1>9. CopyInv'
  BY <1>1, <1>2, <1>5, <1>6, <1>7, <1>8, WritingCopy DEF IInv
<1>10. FrozenTogether'
  BY <1>1 DEF IInv, FrozenTogether
<1>11. MartsAreRaw'
  BY <1>1 DEF IInv, MartsAreRaw
<1> QED
  BY <1>9, <1>10, <1>11 DEF IInv

-----------------------------------------------------------------------------
(* The copy changes.                                                       *)

\* What was frozen stays what the copy will be compared with.
LEMMA FrozenStands ==
    ASSUME IInv, UNCHANGED <<night, legacy, frozen, snapshot, marts>>,
           pc # "freezing", pc' # "freezing", pc' # "compare", late => late',
           pc' \in Loaded \cup {"copy"} => pc \in Loaded \cup {"copy"}
    PROVE  FrozenTogether' /\ MartsAreRaw'
<1>1. Upto' = Upto
  BY DEF Upto, RunAt
<1>2. FrozenTogether'
  BY <1>1 DEF IInv, FrozenTogether
<1>3. MartsAreRaw'
  BY DEF IInv, MartsAreRaw
<1> QED
  BY <1>2, <1>3

\* Before the copy nothing is planted.
LEMMA NothingOff ==
    ASSUME CopyInv, pc \in {"freeze", "freezing", "copy", "plant"}
    PROVE  planted = {} /\ Off = {}
BY DEF CopyInv, FaultsAreRepaired, Off

LEMMA NothingPlanted ==
    ASSUME planted' = {}
    PROVE  /\ Cardinality(planted') <= 1 /\ IsFiniteSet(planted')
           /\ planted' \subseteq OnCells \cup OnRows \cup Inventing
           /\ Off' = {} /\ FaultsAreRepaired' /\ FaultStands'
<1>1. IsFiniteSet(planted') /\ Cardinality(planted') = 0
  BY FS_EmptySet
<1> QED
  BY <1>1 DEF Off, FaultsAreRepaired, FaultStands

\* Yesterday's fault is undone, from Postgres as it is now.
LEMMA RepairStep ==
    ASSUME IInv, Repair
    PROVE  IInv'
<1> DEFINE gone == {r \in Off : r[2] = INVENTED_KEYS}
           again == Off \cap DOMAIN legacy
           kept == Without(raw, gone)
           rows == [r \in again |-> Copied(r, FALSE)]
<1>1. /\ pc = "repair" /\ pc' = "freeze" /\ planted' = {}
      /\ UNCHANGED <<night, fixNight, logic, legacy, watermark, snapshot, frozen, marts, late>>
      /\ raw' = Over(kept, rows)
  BY DEF Repair, Repaired, Off, fixed, outside
<1>2. Fixed' <=> Fixed
  BY <1>1 DEF Fixed, Unloaded
<1>3. /\ LeftOut' = LeftOut /\ \A r : WrongOf(r)' = WrongOf(r)
      /\ Off' = {} /\ RunAt' = RunAt
  BY <1>1, <1>2 DEF LeftOut, WrongOf, Off, RunAt
<1>4. /\ DOMAIN legacy \subseteq Row
      /\ \A r \in DOMAIN legacy : r \in Table \X (Key \cup {INVENTED_KEYS}) /\ r[2] # INVENTED_KEYS /\ legacy[r] \in Nat
  BY RealKeys DEF IInv, CopyInv, Types
<1>5. /\ \A r \in Off : r[2] # INVENTED_KEYS => r \in DOMAIN legacy
      /\ Off # {} => Fixed
  BY DEF IInv, CopyInv, FaultsAreRepaired, Off
<1>6. /\ DOMAIN kept = DOMAIN raw \ gone /\ \A r \in DOMAIN raw \ gone : kept[r] = raw[r]
      /\ DOMAIN rows = again
  BY DEF Without
<1>7. \A r \in again : /\ rows[r] \in Stored /\ rows[r].at = legacy[r]
                       /\ rows[r].bad = WrongOf(r) /\ r \notin LeftOut
  <2> SUFFICES ASSUME NEW r \in again
               PROVE  /\ rows[r] \in Stored /\ rows[r].at = legacy[r]
                      /\ rows[r].bad = WrongOf(r) /\ r \notin LeftOut
    OBVIOUS
  <2>1. Fixed /\ legacy[r] \in Nat /\ rows[r] = Copied(r, FALSE)
    BY <1>4, <1>5
  <2> QED
    BY <2>1, CopiedIsStored DEF LeftOut
<1> HIDE DEF kept, rows, gone, again
<1>8. /\ DOMAIN raw' = (DOMAIN raw \ gone) \cup again
      /\ \A r \in again : raw'[r] = rows[r]
      /\ \A r \in (DOMAIN raw \ gone) \ again : raw'[r] = raw[r]
  <2>1. /\ DOMAIN raw' = DOMAIN kept \cup DOMAIN rows
        /\ \A r \in DOMAIN rows : raw'[r] = rows[r]
        /\ \A r \in DOMAIN kept \ DOMAIN rows : raw'[r] = kept[r]
    BY <1>1 DEF Over
  <2> QED
    BY <2>1, <1>6
<1> USE DEF gone, again
<1>9. raw' \in [DOMAIN raw' -> Stored] /\ DOMAIN raw' \subseteq Table \X (Key \cup {INVENTED_KEYS})
  <2>1. raw \in [DOMAIN raw -> Stored] /\ DOMAIN raw \subseteq Table \X (Key \cup {INVENTED_KEYS})
    BY DEF IInv, CopyInv, Types
  <2>2. kept \in [DOMAIN kept -> Stored] /\ rows \in [DOMAIN rows -> Stored]
    BY <1>6, <1>7, <2>1 DEF kept, rows, Without
  <2>3. raw' \in [DOMAIN raw' -> Stored]
    BY <1>1, <2>2, OverTyped
  <2> QED
    BY <1>4, <1>8, <2>1, <2>3
<1>10. Types'
  BY <1>1, <1>9, NothingPlanted DEF IInv, CopyInv, Types, Pc
<1>11. Times'
  <2>1. \A r \in DOMAIN raw' : raw'[r].at <= RunAt
    <3> SUFFICES ASSUME NEW r \in DOMAIN raw' PROVE raw'[r].at <= RunAt
      OBVIOUS
    <3>1. CASE r \in again
      BY <1>1, <1>7, <1>8, <3>1 DEF IInv, CopyInv, Times, WrittenOn
    <3>2. CASE r \notin again
      BY <1>8, <3>2 DEF IInv, CopyInv, Times
    <3> QED
      BY <3>1, <3>2
  <2> QED
    BY <1>1, <1>3, <2>1 DEF IInv, CopyInv, Times, WrittenOn
<1>12. CopyIsOfRows'
  <2> SUFFICES ASSUME NEW r \in DOMAIN raw'
               PROVE  /\ r[2] # INVENTED_KEYS /\ r \in DOMAIN legacy \ LeftOut
                      /\ raw'[r].at <= legacy[r] /\ raw'[r].bad = WrongOf(r)
    BY <1>1, <1>3 DEF CopyIsOfRows
  <2>1. CASE r \in again
    BY <2>1, <1>4, <1>7, <1>8
  <2>2. CASE r \notin again
    <3>1. r \in DOMAIN raw \ gone /\ raw'[r] = raw[r]
      BY <2>2, <1>8
    <3>2. r[2] # INVENTED_KEYS
      BY <3>1 DEF IInv, CopyInv, CopyIsOfRows
    <3>3. r \notin Off
      BY <3>2, <2>2, <1>5
    <3> QED
      BY <3>1, <3>2, <3>3 DEF IInv, CopyInv, CopyIsOfRows
  <2> QED
    BY <2>1, <2>2
<1>13. CopyFollows'
  <2> SUFFICES ASSUME NEW r \in DOMAIN legacy \ LeftOut, legacy[r] <= watermark[r[1]] - Overlap
               PROVE  r \in DOMAIN raw' /\ raw'[r].at = legacy[r]
    BY <1>1, <1>3 DEF CopyFollows
  <2>1. CASE r \in Off
    BY <2>1, <1>7, <1>8
  <2>2. CASE r \notin Off
    BY <2>2, <1>8 DEF IInv, CopyInv, CopyFollows
  <2> QED
    BY <2>1, <2>2
<1>14. NothingNewer' /\ CopyIsTonights' /\ FaultsAreRepaired' /\ FaultStands'
  BY <1>1, NothingPlanted DEF NothingNewer, CopyIsTonights, Loaded
<1>15. CopyInv'
  BY <1>10, <1>11, <1>12, <1>13, <1>14 DEF CopyInv
<1>16. FrozenTogether' /\ MartsAreRaw'
  BY <1>1, FrozenStands DEF Loaded
<1> QED
  BY <1>15, <1>16 DEF IInv

\* What a load reads of a table is Postgres's, as far as it is tonight's and the job at
\* work loads it; and it reads everything of it since the mark.
LEMMA SelectedRows ==
    ASSUME CopyInv, pc = "copy", NEW t \in Table, NEW since, NEW asDelivered \in BOOLEAN,
           asDelivered = ~Fixed
    PROVE  /\ \A r \in Selected(t, since, asDelivered) :
                  r \in DOMAIN legacy \ LeftOut /\ r[1] = t /\ legacy[r] <= RunAt
           /\ \A r \in DOMAIN legacy \ LeftOut :
                  r[1] = t /\ legacy[r] > since => r \in Selected(t, since, asDelivered)
<1>1. \A r \in DOMAIN legacy : r = <<r[1], r[2]>> /\ r[2] \in Key /\ r[2] # INVENTED_KEYS /\ legacy[r] <= RunAt
  <2>1. \A r \in DOMAIN legacy : r \in Row /\ legacy[r] <= RunAt
    BY DEF CopyInv, Types, Times, WrittenOn
  <2> QED
    BY <2>1, RealKeys
<1>2. ASSUME NEW r \in Selected(t, since, asDelivered)
      PROVE  r \in DOMAIN legacy \ LeftOut /\ r[1] = t /\ legacy[r] <= RunAt
  <2>1. r \in {t} \X Held(t) /\ legacy[r] <= RunAt /\ ~(asDelivered /\ r \in Lost)
    BY DEF Selected
  <2>2. r = <<t, r[2]>> /\ r[1] = t /\ r[2] \in Held(t)
    BY <2>1
  <2>3. r \in DOMAIN legacy
    BY <2>2 DEF Held
  <2> QED
    BY <2>1, <2>2, <2>3 DEF LeftOut
<1>3. ASSUME NEW r \in DOMAIN legacy \ LeftOut, r[1] = t, legacy[r] > since
      PROVE  r \in Selected(t, since, asDelivered)
  <2>1. r = <<t, r[2]>> /\ r[2] \in Held(t)
    BY <1>1, <1>3 DEF Held
  <2>2. r \in {t} \X Held(t)
    BY <2>1
  <2>3. ~(asDelivered /\ r \in Lost)
    BY DEF LeftOut
  <2>4. r \in DOMAIN raw => raw[r].at <= legacy[r]
    BY <1>1 DEF CopyInv, CopyIsOfRows
  <2> QED
    BY <1>1, <1>3, <2>2, <2>3, <2>4 DEF Selected
<1> QED
  BY <1>2, <1>3

\* The night's load. A table whose copy is stopped stays at its mark.
LEMMA LoadStep ==
    ASSUME IInv, Load
    PROVE  IInv'
<1>1. /\ pc = "copy" /\ pc' = "plant" /\ night # fixNight
      /\ UNCHANGED <<night, fixNight, logic, legacy, snapshot, frozen, marts, planted>>
  BY DEF Load, fixed
<1>2. PICK skip : LET rows == UNION {Selected(t, watermark[t] - Overlap, AsDelivered) : t \in Table \ skip}
                  IN  /\ raw' = Over(raw, [r \in rows |-> Copied(r, AsDelivered)])
                      /\ watermark' = [t \in Table |-> IF t \in skip THEN watermark[t] ELSE RunAt]
                      /\ late' = (late \/ skip # {})
  BY DEF Load
<1> DEFINE rows == UNION {Selected(t, watermark[t] - Overlap, AsDelivered) : t \in Table \ skip}
           new == [r \in rows |-> Copied(r, AsDelivered)]
<1>3. /\ night \in Nat /\ fixNight \in Nat /\ RunAt \in Nat /\ RunAt' = RunAt
      /\ \A t \in Table : watermark[t] \in Nat /\ watermark[t] <= RunAt
  BY <1>1, Constants DEF IInv, CopyInv, Types, Times, RunAt
<1>4. AsDelivered \in BOOLEAN /\ AsDelivered = ~Fixed /\ (Fixed' <=> Fixed)
  BY <1>1, <1>3 DEF AsDelivered, Fixed, Unloaded
<1>5. Off = {} /\ Off' = {} /\ LeftOut' = LeftOut /\ planted' = {} /\ \A r : WrongOf(r)' = WrongOf(r)
  BY <1>1, <1>4, NothingOff DEF IInv, Off, LeftOut, WrongOf
<1>6. \A r \in DOMAIN legacy : /\ r \in Row /\ r[1] \in Table /\ r[2] # INVENTED_KEYS
                               /\ r \in Table \X (Key \cup {INVENTED_KEYS})
                               /\ legacy[r] \in Nat /\ legacy[r] <= RunAt
  <2>1. \A r \in DOMAIN legacy : r \in Row /\ legacy[r] \in Nat /\ legacy[r] <= RunAt
    BY <1>1 DEF IInv, CopyInv, Types, Times, WrittenOn
  <2> QED
    BY <2>1, RealKeys
<1>7. \A r \in rows : r \in DOMAIN legacy \ LeftOut
  <2> SUFFICES ASSUME NEW t \in Table, NEW r \in Selected(t, watermark[t] - Overlap, AsDelivered)
               PROVE  r \in DOMAIN legacy \ LeftOut
    OBVIOUS
  <2> DEFINE since == watermark[t] - Overlap
  <2> HIDE DEF since
  <2>1. \A q \in Selected(t, since, AsDelivered) : q \in DOMAIN legacy \ LeftOut
    BY <1>1, <1>4, SelectedRows DEF IInv
  <2> QED
    BY <2>1 DEF since
<1>8. \A r \in DOMAIN legacy \ LeftOut :
          r[1] \notin skip /\ legacy[r] > watermark[r[1]] - Overlap => r \in rows
  <2> SUFFICES ASSUME NEW r \in DOMAIN legacy \ LeftOut, r[1] \notin skip,
                      legacy[r] > watermark[r[1]] - Overlap
               PROVE  r \in Selected(r[1], watermark[r[1]] - Overlap, AsDelivered)
    BY <1>6
  <2> DEFINE t == r[1]
             since == watermark[r[1]] - Overlap
  <2>1. t \in Table /\ legacy[r] > since
    BY <1>6
  <2> HIDE DEF since, t
  <2>2. \A q \in DOMAIN legacy \ LeftOut :
            q[1] = t /\ legacy[q] > since => q \in Selected(t, since, AsDelivered)
    BY <1>1, <1>4, <2>1, SelectedRows DEF IInv
  <2> QED
    BY <2>1, <2>2 DEF since, t
<1>9. \A r \in rows : Copied(r, AsDelivered) \in Stored /\ Copied(r, AsDelivered).at = legacy[r]
                      /\ Copied(r, AsDelivered).bad = WrongOf(r)
  BY <1>4, <1>6, <1>7, CopiedIsStored
<1> HIDE DEF rows
<1>10. /\ DOMAIN raw' = DOMAIN raw \cup rows
       /\ \A r \in rows : raw'[r] = Copied(r, AsDelivered)
       /\ \A r \in DOMAIN raw \ rows : raw'[r] = raw[r]
       /\ raw' = Over(raw, new)
  <2>1. raw' = Over(raw, new)
    BY <1>2 DEF rows
  <2>2. DOMAIN new = rows /\ \A r \in rows : new[r] = Copied(r, AsDelivered)
    OBVIOUS
  <2> HIDE DEF new
  <2>3. /\ DOMAIN raw' = DOMAIN raw \cup DOMAIN new
        /\ \A r \in DOMAIN new : raw'[r] = new[r]
        /\ \A r \in DOMAIN raw \ DOMAIN new : raw'[r] = raw[r]
    BY <2>1 DEF Over
  <2> QED
    BY <2>1, <2>2, <2>3
<1>11. /\ watermark' = [t \in Table |-> IF t \in skip THEN watermark[t] ELSE RunAt]
       /\ late' = (late \/ skip # {})
  BY <1>2
<1>12. raw' \in [DOMAIN raw' -> Stored] /\ DOMAIN raw' \subseteq Table \X (Key \cup {INVENTED_KEYS})
  <2>1. raw \in [DOMAIN raw -> Stored] /\ DOMAIN raw \subseteq Table \X (Key \cup {INVENTED_KEYS})
    BY DEF IInv, CopyInv, Types
  <2>2. new \in [DOMAIN new -> Stored]
    BY <1>9
  <2>3. raw' \in [DOMAIN raw' -> Stored]
    BY <1>10, <2>1, <2>2, OverTyped
  <2> QED
    BY <1>6, <1>7, <1>10, <2>1, <2>3
<1> HIDE DEF new
<1>13. Types'
  <2>1. watermark' \in [Table -> Nat]
    BY <1>3, <1>11
  <2> QED
    BY <1>1, <1>5, <1>12, <2>1, NothingPlanted DEF IInv, CopyInv, Types, Pc
<1>14. Times'
  <2>1. \A r \in DOMAIN raw' : raw'[r].at <= RunAt
    <3> SUFFICES ASSUME NEW r \in DOMAIN raw' PROVE raw'[r].at <= RunAt
      OBVIOUS
    <3>1. CASE r \in rows
      BY <1>6, <1>7, <1>9, <1>10, <3>1
    <3>2. CASE r \notin rows
      BY <1>10, <3>2 DEF IInv, CopyInv, Times
    <3> QED
      BY <3>1, <3>2
  <2> QED
    BY <1>1, <1>3, <1>6, <1>11, <2>1 DEF Times
<1>15. CopyIsOfRows'
  <2> SUFFICES ASSUME NEW r \in DOMAIN raw'
               PROVE  /\ r[2] # INVENTED_KEYS /\ r \in DOMAIN legacy \ LeftOut
                      /\ raw'[r].at <= legacy[r] /\ raw'[r].bad = WrongOf(r)
    BY <1>1, <1>5 DEF CopyIsOfRows
  <2>1. CASE r \in rows
    BY <2>1, <1>6, <1>7, <1>9, <1>10
  <2>2. CASE r \notin rows
    <3>1. r \in DOMAIN raw /\ raw'[r] = raw[r]
      BY <2>2, <1>10
    <3> QED
      BY <3>1, <1>5 DEF IInv, CopyInv, CopyIsOfRows
  <2> QED
    BY <2>1, <2>2
<1>16. ASSUME NEW r \in DOMAIN legacy \ LeftOut,
              r[1] \notin skip \/ legacy[r] <= watermark[r[1]] - Overlap
       PROVE  r \in DOMAIN raw' /\ raw'[r].at = legacy[r]
  <2>1. CASE r \in rows
    BY <2>1, <1>9, <1>10
  <2>2. CASE r \notin rows
    <3>1. legacy[r] <= watermark[r[1]] - Overlap
      BY <2>2, <1>3, <1>6, <1>8, <1>16, Constants
    <3>2. r \in DOMAIN raw /\ raw[r].at = legacy[r]
      BY <3>1, <1>5 DEF IInv, CopyInv, CopyFollows
    <3> QED
      BY <3>2, <2>2, <1>10
  <2> QED
    BY <2>1, <2>2
<1>17. CopyFollows'
  <2> SUFFICES ASSUME NEW r \in DOMAIN legacy \ LeftOut, legacy[r] <= watermark'[r[1]] - Overlap
               PROVE  r \in DOMAIN raw' /\ raw'[r].at = legacy[r]
    BY <1>1, <1>5 DEF CopyFollows
  <2>1. r[1] \in skip => watermark'[r[1]] = watermark[r[1]]
    BY <1>6, <1>11
  <2> QED
    BY <2>1, <1>16
<1>18. CopyIsTonights'
  <2> SUFFICES ASSUME ~late'
               PROVE  /\ \A t \in Table : watermark'[t] = RunAt
                      /\ \A r \in DOMAIN legacy \ LeftOut : r \in DOMAIN raw' /\ raw'[r].at = legacy[r]
    BY <1>1, <1>3, <1>5 DEF CopyIsTonights
  <2>1. skip = {}
    BY <1>11
  <2> QED
    BY <2>1, <1>11, <1>16
<1>19. NothingNewer'
  BY <1>1, <1>3, <1>5, <1>6, <1>15 DEF NothingNewer, CopyIsOfRows
<1>20. CopyInv'
  BY <1>5, <1>13, <1>14, <1>15, <1>17, <1>18, <1>19, NothingPlanted DEF CopyInv
<1>21. FrozenTogether' /\ MartsAreRaw'
  BY <1>1, <1>11, FrozenStands DEF Loaded
<1> QED
  BY <1>20, <1>21 DEF IInv

\* The fixed job reloads every table in full.
LEMMA BackfillStep ==
    ASSUME IInv, Backfill
    PROVE  IInv'
<1>1. /\ pc = "copy" /\ pc' = "plant" /\ night = fixNight
      /\ UNCHANGED <<night, fixNight, logic, legacy, snapshot, frozen, marts, planted, late>>
      /\ raw' = [r \in {r \in DOMAIN legacy : legacy[r] <= RunAt} |-> Copied(r, FALSE)]
      /\ watermark' = [t \in Table |-> RunAt]
  BY DEF Backfill, fixed, outside
<1>2. /\ Fixed' /\ LeftOut' = {} /\ (\A r : WrongOf(r)' = {}) /\ planted = {} /\ Off' = {}
      /\ RunAt \in Nat /\ RunAt' = RunAt
  <2>1. Fixed'
    BY <1>1 DEF Fixed, Unloaded
  <2>2. planted = {} /\ Off' = {}
    BY <1>1, NothingOff DEF IInv, Off
  <2> QED
    BY <1>1, <2>1, <2>2, Constants DEF LeftOut, WrongOf, RunAt, IInv, CopyInv, Types
<1>3. \A r \in DOMAIN legacy : /\ r \in Table \X (Key \cup {INVENTED_KEYS}) /\ r[2] # INVENTED_KEYS
                               /\ legacy[r] \in Nat /\ legacy[r] <= RunAt
  <2>1. \A r \in DOMAIN legacy : r \in Row /\ legacy[r] \in Nat /\ legacy[r] <= RunAt
    BY <1>1 DEF IInv, CopyInv, Types, Times, WrittenOn
  <2> QED
    BY <2>1, RealKeys
<1>4. \A r \in DOMAIN legacy : /\ Copied(r, FALSE) \in Stored /\ Copied(r, FALSE).at = legacy[r]
                               /\ Copied(r, FALSE).bad = {}
  BY <1>3 DEF Copied, Stored
<1>5. /\ raw' = [r \in DOMAIN legacy |-> Copied(r, FALSE)] /\ DOMAIN raw' = DOMAIN legacy
      /\ \A r \in DOMAIN legacy : raw'[r] = Copied(r, FALSE)
  <2>1. {r \in DOMAIN legacy : legacy[r] <= RunAt} = DOMAIN legacy
    BY <1>3
  <2> QED
    BY <1>1, <2>1
<1>6. Types'
  <2>1. raw' \in [DOMAIN raw' -> Stored] /\ DOMAIN raw' \subseteq Table \X (Key \cup {INVENTED_KEYS})
    BY <1>3, <1>4, <1>5
  <2>2. watermark' \in [Table -> Nat]
    BY <1>1, <1>2
  <2> QED
    BY <1>1, <1>2, <2>1, <2>2, NothingPlanted DEF IInv, CopyInv, Types, Pc
<1>7. Times'
  <2>1. \A r \in DOMAIN raw' : raw'[r].at <= RunAt
    <3> SUFFICES ASSUME NEW r \in DOMAIN legacy PROVE raw'[r].at <= RunAt
      BY <1>5
    <3>1. raw'[r].at = legacy[r]
      BY <1>4, <1>5
    <3> QED
      BY <1>3, <3>1
  <2>2. \A r \in DOMAIN legacy : legacy[r] <= RunAt /\ legacy[r] <= RunAt + 1
    BY <1>2, <1>3
  <2>3. \A t \in Table : watermark'[t] <= RunAt
    BY <1>1, <1>2
  <2> QED
    BY <1>1, <1>2, <2>1, <2>2, <2>3 DEF Times
<1>8. CopyIsOfRows'
  <2> SUFFICES ASSUME NEW r \in DOMAIN legacy
               PROVE  /\ r[2] # INVENTED_KEYS /\ raw'[r].at <= legacy[r] /\ raw'[r].bad = {}
    BY <1>1, <1>2, <1>5 DEF CopyIsOfRows
  <2>1. raw'[r].at = legacy[r] /\ raw'[r].bad = {}
    BY <1>4, <1>5
  <2>2. r[2] # INVENTED_KEYS /\ legacy[r] \in Nat
    BY <1>3
  <2> QED
    BY <2>1, <2>2
<1>9. CopyFollows' /\ CopyIsTonights'
  BY <1>1, <1>2, <1>4, <1>5 DEF CopyFollows, CopyIsTonights
<1>10. NothingNewer'
  BY <1>1, <1>2, <1>3, <1>5 DEF NothingNewer
<1>11. CopyInv'
  BY <1>1, <1>2, <1>6, <1>7, <1>8, <1>9, <1>10, NothingPlanted DEF CopyInv
<1>12. FrozenTogether' /\ MartsAreRaw'
  BY <1>1, FrozenStands DEF Loaded
<1> QED
  BY <1>11, <1>12 DEF IInv

\* A one-off fault falls on a copy that is right, and on one row of it.
LEMMA PlantStep ==
    ASSUME IInv, Plant
    PROVE  IInv'
<1>1. /\ pc = "plant" /\ pc' = "write"
      /\ UNCHANGED <<night, fixNight, logic, legacy, watermark, snapshot, frozen, marts, late>>
  BY DEF Plant, fixed, outside
<1>2. (Fixed' <=> Fixed) /\ planted = {} /\ Off = {} /\ RunAt' = RunAt
  BY <1>1, NothingOff DEF Fixed, Unloaded, IInv, RunAt
<1>3. FrozenTogether' /\ MartsAreRaw'
  BY <1>1, FrozenStands DEF Loaded
<1>4. CASE raw' = raw /\ planted' = planted
  <2>1. frozen' = [r \in Report |-> frozen'[r]]
    BY <1>1 DEF IInv, CopyInv, Types
  <2>2. CopyInv'
    BY <1>1, <1>2, <1>4, <2>1, QuietCopy DEF IInv, Pc, Loaded, WrittenOn
  <2> QED
    BY <1>3, <2>2 DEF IInv
<1>5. ASSUME NEW f \in FaultsOf(night), NEW k \in Targets(f), raw' = Planted(f, k),
             planted' = {[table |-> f.table, key |-> k, column |-> f.column, class |-> f.class]}
      PROVE  CopyInv'
  <2> DEFINE r == <<f.table, k>>
             p == [table |-> f.table, key |-> k, column |-> f.column, class |-> f.class]
             old == Table \X (Key \cup {INVENTED_KEYS})
  <2> DEFINE ofRows == [table : Table, class : RowClass, column : {""}]
             ofCells == [table : Table, class : CellClass, column : Column]
             faults == ofRows \cup ofCells
  <2>1. f \in faults /\ Fixed
    <3>1. CATALOGUE \in Seq(faults)
      BY CatalogueAssumption
    <3>2. PICK i \in DOMAIN CATALOGUE : f = CATALOGUE[i] /\ night = fixNight + 2 * i
      BY DEF FaultsOf
    <3> HIDE DEF faults
    <3>3. i \in Nat \ {0} /\ f \in faults
      BY <3>1, <3>2
    <3>4. fixNight \in Nat /\ night \in Nat
      BY Constants DEF IInv, CopyInv, Types
    <3> QED
      BY <3>2, <3>3, <3>4 DEF Fixed
  <2>2. /\ f.table \in Table
        /\ \/ f.class = "extra_in_target" /\ f.column = "" /\ f.class \in RowClass
           \/ f.class = "missing_in_target" /\ f.column = "" /\ f.class \in RowClass
           \/ f.class \in CellClass /\ f.column \in Column
        /\ RowClass \cap CellClass = {} /\ CellClass \subseteq Class /\ RowClass = {"missing_in_target", "extra_in_target"}
    <3>1. \/ f.table \in Table /\ f.class \in RowClass /\ f.column = ""
          \/ f.table \in Table /\ f.class \in CellClass /\ f.column \in Column
      BY <2>1
    <3>2. RowClass = {"missing_in_target", "extra_in_target"} /\ RowClass \cap CellClass = {} /\ CellClass \subseteq Class
      BY DEF RowClass, CellClass
    <3> QED
      BY <3>1, <3>2
  <2> HIDE DEF faults, ofRows, ofCells
  <2>3. LeftOut = {} /\ LeftOut' = {} /\ Fixed' /\ \A q : WrongOf(q) = {} /\ WrongOf(q)' = {}
    BY <1>2, <2>1 DEF LeftOut, WrongOf
  <2>4. /\ raw \in [DOMAIN raw -> Stored] /\ DOMAIN raw \subseteq old
        /\ \A q \in DOMAIN raw : /\ q[2] # INVENTED_KEYS /\ q \in DOMAIN legacy
                                 /\ raw[q].at <= legacy[q] /\ raw[q].bad = {}
    BY <1>2, <2>3 DEF IInv, CopyInv, Types, CopyIsOfRows
  <2>5. INVENTED_KEYS \notin Key
    BY Invented, ParallelAssumption
  <2>6. f.class = "extra_in_target" => k = INVENTED_KEYS /\ r \notin DOMAIN raw
    <3> SUFFICES ASSUME f.class = "extra_in_target" PROVE k = INVENTED_KEYS /\ r \notin DOMAIN raw
      OBVIOUS
    <3>1. k = INVENTED_KEYS /\ r[2] = k
      BY DEF Targets
    <3> QED
      BY <3>1, <2>4
  <2>7. f.class # "extra_in_target" => k \in Key /\ k # INVENTED_KEYS /\ r \in DOMAIN raw /\ r \in DOMAIN legacy
    BY <2>4, <2>5 DEF Targets
  <2> HIDE DEF r
  <2>8. r \in old /\ r[1] = f.table /\ r[2] = k
    BY <2>2, <2>6, <2>7 DEF r
  <2>9. /\ raw' \in [DOMAIN raw' -> Stored] /\ DOMAIN raw' \subseteq old
        /\ DOMAIN raw' \ {r} = DOMAIN raw \ {r}
        /\ \A q \in DOMAIN raw \ {r} : raw'[q] = raw[q]
        /\ f.class = "missing_in_target" => r \notin DOMAIN raw'
        /\ f.class = "extra_in_target" => r \in DOMAIN raw' /\ raw'[r].at = 0 /\ raw'[r].bad = {}
        /\ f.class \in CellClass => /\ r \in DOMAIN raw' /\ raw'[r].at = raw[r].at
                                    /\ raw'[r].bad = {<<f.column, f.class>>}
    <3>1. CASE f.class = "extra_in_target"
      <4>1. raw' = Over(raw, [x \in {r} |-> [at |-> 0, bad |-> {}]])
        BY <1>5, <3>1 DEF Planted, r
      <4>2. [at |-> 0, bad |-> {}] \in Stored
        BY DEF Stored
      <4> DEFINE new == [x \in {r} |-> [at |-> 0, bad |-> {}]]
      <4>3. new \in [DOMAIN new -> Stored] /\ DOMAIN new = {r} /\ new[r].at = 0 /\ new[r].bad = {}
        BY <4>2
      <4> HIDE DEF new
      <4>4. raw' \in [DOMAIN raw' -> Stored]
        BY <2>4, <4>1, <4>3, OverTyped DEF new
      <4>5. /\ DOMAIN raw' = DOMAIN raw \cup {r} /\ raw'[r] = new[r]
            /\ \A q \in DOMAIN raw \ {r} : raw'[q] = raw[q]
        BY <4>1, <4>3 DEF Over, new
      <4> QED
        BY <2>2, <2>4, <2>8, <3>1, <4>3, <4>4, <4>5
    <3>2. CASE f.class = "missing_in_target"
      <4>1. raw' = [q \in DOMAIN raw \ {r} |-> raw[q]]
        BY <1>5, <3>2 DEF Planted, Without, r
      <4>2. DOMAIN raw' = DOMAIN raw \ {r} /\ \A q \in DOMAIN raw \ {r} : raw'[q] = raw[q]
        BY <4>1
      <4>3. raw' \in [DOMAIN raw' -> Stored]
        BY <2>4, <4>1
      <4> QED
        BY <2>2, <2>4, <3>2, <4>2, <4>3
    <3>3. CASE f.class \in CellClass
      <4>1. raw' = [raw EXCEPT ![r].bad = raw[r].bad \cup {<<f.column, f.class>>}]
        <5>1. f.class # "extra_in_target" /\ f.class # "missing_in_target"
          BY <2>2, <3>3
        <5> QED
          BY <1>5, <5>1 DEF Planted, r
      <4>2. r \in DOMAIN raw /\ raw[r] \in Stored /\ raw[r].bad = {}
        BY <2>2, <2>4, <2>7, <3>3
      <4>3. /\ DOMAIN raw' = DOMAIN raw /\ \A q \in DOMAIN raw \ {r} : raw'[q] = raw[q]
            /\ raw'[r].at = raw[r].at /\ raw'[r].bad = {<<f.column, f.class>>}
            /\ raw'[r] = [raw[r] EXCEPT !.bad = {<<f.column, f.class>>}]
        BY <4>1, <4>2 DEF Stored
      <4>4. <<f.column, f.class>> \in Defect
        BY <2>2, <3>3 DEF Defect
      <4>5. raw'[r] \in Stored
        BY <4>2, <4>3, <4>4 DEF Stored
      <4>6. raw' \in [DOMAIN raw' -> Stored]
        <5>1. raw' = [q \in DOMAIN raw |-> raw'[q]]
          BY <4>1
        <5>2. \A q \in DOMAIN raw : raw'[q] \in Stored
          BY <2>4, <4>3, <4>5
        <5> QED
          BY <4>3, <5>1, <5>2
      <4> QED
        BY <2>2, <2>4, <3>3, <4>2, <4>3, <4>6
    <3> QED
      BY <2>2, <3>1, <3>2, <3>3
  <2>10. p \in OnCells \cup OnRows \cup Inventing
    BY <2>2, <2>6, <2>7 DEF OnCells, OnRows, Inventing
  <2>11. /\ p.table = f.table /\ p.key = k /\ p.column = f.column /\ p.class = f.class
         /\ planted' = {p} /\ Off' = {r}
    BY <1>5 DEF Off, r
  <2> HIDE DEF p
  <2>12. Types'
    <3>1. IsFiniteSet(planted') /\ Cardinality(planted') = 1
      BY <2>11, FS_Singleton
    <3> QED
      BY <1>1, <2>9, <2>10, <2>11, <3>1 DEF IInv, CopyInv, Types, Pc
  <2>13. Times'
    <3>1. \A q \in DOMAIN raw' : raw'[q].at <= RunAt
      <4> SUFFICES ASSUME NEW q \in DOMAIN raw' PROVE raw'[q].at <= RunAt
        OBVIOUS
      <4>1. RunAt \in Nat
        BY Constants DEF IInv, CopyInv, Types, RunAt
      <4>2. q # r \/ f.class \in CellClass => q \in DOMAIN raw /\ raw'[q].at = raw[q].at
        BY <2>2, <2>7, <2>9
      <4>3. q = r /\ f.class \notin CellClass => raw'[q].at = 0
        BY <2>2, <2>9
      <4> QED
        BY <4>1, <4>2, <4>3 DEF IInv, CopyInv, Times
    <3> QED
      BY <1>1, <1>2, <3>1 DEF IInv, CopyInv, Times, WrittenOn
  <2>14. FaultsAreRepaired'
    BY <1>1, <2>2, <2>3, <2>6, <2>7, <2>11 DEF FaultsAreRepaired, r
  <2>15. \A q \in DOMAIN raw' : /\ q[2] # INVENTED_KEYS => q \in DOMAIN raw /\ raw'[q].at = raw[q].at
                                /\ q # r => raw'[q].bad = {}
                                /\ q[2] = INVENTED_KEYS => q = r /\ raw'[q].at = 0
    <3> SUFFICES ASSUME NEW q \in DOMAIN raw'
                 PROVE  /\ q[2] # INVENTED_KEYS => q \in DOMAIN raw /\ raw'[q].at = raw[q].at
                        /\ q # r => raw'[q].bad = {}
                        /\ q[2] = INVENTED_KEYS => q = r /\ raw'[q].at = 0
      OBVIOUS
    <3>1. CASE q # r
      BY <2>4, <2>9, <3>1
    <3>2. CASE q = r
      BY <2>2, <2>6, <2>7, <2>8, <2>9, <3>2
    <3> QED
      BY <3>1, <3>2
  <2>16. CopyIsOfRows'
    BY <1>1, <2>3, <2>4, <2>11, <2>15 DEF CopyIsOfRows
  <2>17. NothingNewer'
    <3>1. \A q \in DOMAIN legacy : legacy[q] <= RunAt
      BY <1>1 DEF IInv, CopyInv, Times, WrittenOn
    <3>2. \A q \in DOMAIN raw' \cup {r} : q[2] # INVENTED_KEYS => q \in DOMAIN legacy
      BY <2>2, <2>4, <2>6, <2>7, <2>8, <2>15
    <3> QED
      BY <1>1, <1>2, <2>11, <3>1, <3>2 DEF NothingNewer
  <2>18. ASSUME NEW q \in DOMAIN legacy \ {r}, q \in DOMAIN raw, raw[q].at = legacy[q]
         PROVE  q \in DOMAIN raw' /\ raw'[q].at = legacy[q]
    BY <2>9, <2>18
  <2>19. CopyFollows'
    <3> SUFFICES ASSUME NEW q \in DOMAIN legacy \ {r}, legacy[q] <= watermark[q[1]] - Overlap
                 PROVE  q \in DOMAIN raw' /\ raw'[q].at = legacy[q]
      BY <1>1, <2>3, <2>11 DEF CopyFollows
    <3>1. q \in DOMAIN raw /\ raw[q].at = legacy[q]
      BY <1>2, <2>3 DEF IInv, CopyInv, CopyFollows
    <3> QED
      BY <2>18, <3>1
  <2>20. \A q \in DOMAIN legacy : ~late => q \in DOMAIN raw /\ raw[q].at = legacy[q]
    BY <1>1, <1>2, <2>3 DEF IInv, CopyInv, CopyIsTonights, Times, WrittenOn, Loaded
  <2>21. CopyIsTonights'
    <3>1. ~late => \A t \in Table : watermark[t] = RunAt
      BY <1>1 DEF IInv, CopyInv, CopyIsTonights, Loaded
    <3> QED
      BY <1>1, <1>2, <2>3, <2>11, <2>18, <2>20, <3>1 DEF CopyIsTonights
  <2>22. FaultStands'
    <3>1. <<p.table, p.key>> = r
      BY <2>11 DEF r
    <3>2. f.class \in CellClass /\ ~late => raw'[r].at = legacy[r]
      BY <2>2, <2>7, <2>9, <2>20
    <3> QED
      BY <1>1, <2>9, <2>11, <3>1, <3>2 DEF FaultStands
  <2> QED
    BY <2>12, <2>13, <2>14, <2>16, <2>17, <2>19, <2>21, <2>22 DEF CopyInv
<1> QED
  BY <1>3, <1>4, <1>5 DEF Plant, IInv

-----------------------------------------------------------------------------
(* The invariant.                                                          *)

LEMMA NextIInv == IInv /\ [Next]_vars => IInv'
<1> SUFFICES ASSUME IInv, [Next]_vars PROVE IInv'
  OBVIOUS
<1>1. CASE Arrive
  BY <1>1, ArriveStep
<1>2. CASE Repair
  BY <1>2, RepairStep
<1>3. CASE TakeSnapshot \/ CommitLeader \/ \E r \in Report : FreezeReport(r)
  BY <1>3, FreezeSteps
<1>4. CASE Load
  BY <1>4, LoadStep
<1>5. CASE Backfill
  BY <1>5, BackfillStep
<1>6. CASE Plant
  BY <1>6, PlantStep
<1>7. CASE WriteOn
  BY <1>7, WriteOnStep
<1>8. CASE CommitLate
  BY <1>8, CommitLateStep
<1>9. CASE Build \/ Compare \/ CompareRaises \/ Finish \/ UNCHANGED vars
  BY <1>9, JudgeSteps
<1> QED
  BY <1>1, <1>2, <1>3, <1>4, <1>5, <1>6, <1>7, <1>8, <1>9 DEF Next

LEMMA Invariance == Spec => []IInv
BY InitIInv, NextIInv, PTL DEF Spec

\* The reports of a night are frozen from one snapshot, whatever commits while they are
\* read and however many workers read them: the leader's export is the only one they take.
THEOREM FrozenFromOneSnapshot == Spec => []OneSnapshot
<1>1. IInv => OneSnapshot
  <2> SUFFICES ASSUME IInv, NEW r \in Report, NEW s \in Report, Frozen(r), Frozen(s)
               PROVE  frozen[r] = frozen[s]
    BY DEF OneSnapshot
  <2>1. CASE pc = "freezing"
    BY <2>1 DEF IInv, FrozenTogether, Frozen
  <2>2. CASE pc # "freezing"
    BY <2>2 DEF IInv, FrozenTogether
  <2> QED
    BY <2>1, <2>2
<1> QED
  BY <1>1, Invariance, PTL

-----------------------------------------------------------------------------
(* The night's judgement.                                                  *)

\* The results are a sequence, no longer than the nights; the night's own is not yet there.
ResultsAreListed ==
    /\ \E S : results \in Seq(S)
    /\ Len(results) <= night
    /\ pc \in Loaded \cup Unloaded => Len(results) < night

LEMMA ResultsStay == Spec => [](IInv /\ ResultsAreListed)
<1>1. Init => ResultsAreListed
  <2> SUFFICES ASSUME Init PROVE ResultsAreListed
    OBVIOUS
  <2>1. results = <<>> /\ night = 0 /\ pc = "day"
    BY DEF Init
  <2>2. results \in Seq({})
    BY <2>1
  <2> QED
    BY <2>1, <2>2 DEF ResultsAreListed, Loaded, Unloaded
<1>2. IInv /\ ResultsAreListed /\ [Next]_vars => ResultsAreListed'
  <2> SUFFICES ASSUME IInv, ResultsAreListed, [Next]_vars PROVE ResultsAreListed'
    OBVIOUS
  <2>1. PICK S : results \in Seq(S)
    BY DEF ResultsAreListed
  <2>2. night \in Nat /\ Len(results) \in Nat
    BY <2>1, Constants DEF IInv, CopyInv, Types
  <2>3. CASE Compare
    <3>1. PICK drifted, lenient : results' = Append(results, Result(drifted, lenient))
      BY <2>3 DEF Compare
    <3> DEFINE R == Result(drifted, lenient)
    <3> HIDE DEF R
    <3>2. results' = Append(results, R)
      BY <3>1 DEF R
    <3>3. results' \in Seq(S \cup {R}) /\ Len(results') = Len(results) + 1
      BY <2>1, <3>2
    <3>4. night' = night /\ pc = "compare" /\ pc' = "day"
      BY <2>3 DEF Compare
    <3> QED
      BY <2>2, <3>3, <3>4 DEF ResultsAreListed, Loaded, Unloaded
  <2>4. CASE Arrive
    BY <2>2, <2>4 DEF Arrive, judged, ResultsAreListed
  <2>5. CASE UNCHANGED <<results, night>> /\ (pc' \in Loaded \cup Unloaded => pc \in Loaded \cup Unloaded)
    BY <2>5 DEF ResultsAreListed
  <2>6. CASE Repair \/ TakeSnapshot \/ CommitLeader \/ \E r \in Report : FreezeReport(r)
    <3>1. UNCHANGED <<results, night>> /\ pc \in Unloaded
      BY <2>6 DEF Repair, TakeSnapshot, CommitLeader, FreezeReport, judged, Unloaded
    <3> QED
      BY <2>5, <3>1
  <2>7. CASE Load \/ Backfill \/ Plant \/ WriteOn \/ Build
    <3>1. UNCHANGED <<results, night>> /\ pc \in Loaded \cup Unloaded
      BY <2>7 DEF Load, Backfill, Plant, WriteOn, Build, judged, Loaded, Unloaded
    <3> QED
      BY <2>5, <3>1
  <2>8. CASE CompareRaises \/ Finish \/ CommitLate \/ UNCHANGED vars
    <3>1. UNCHANGED <<results, night>> /\ (pc' = pc \/ pc' \in {"raised", "done"})
      BY <2>8 DEF CompareRaises, Finish, CommitLate, vars, judged
    <3> QED
      BY <2>5, <3>1 DEF Loaded, Unloaded
  <2> QED
    BY <2>3, <2>4, <2>6, <2>7, <2>8 DEF Next
<1> QED
  BY InitIInv, NextIInv, <1>1, <1>2, PTL DEF Spec

\* Only the comparison judges, and a result is that of the copy as it was compared.
LEMMA Judging ==
    ASSUME ResultsAreListed, [Next]_vars, Judged
    PROVE  \E drifted, lenient :
             /\ Last = Result(drifted, lenient) /\ lenient \subseteq {r \in Report : OnlyRounded(r)}
             /\ pc = "compare" /\ late' = (late \/ drifted # {})
<1>1. Compare
  BY DEF Judged, Next, vars, Arrive, Repair, TakeSnapshot, CommitLeader, FreezeReport, Load, Backfill,
         Plant, WriteOn, Build, CompareRaises, Finish, CommitLate, judged
<1>2. PICK drifted \in DriftedTonight, lenient \in SUBSET {r \in Report : OnlyRounded(r)} :
        /\ results' = Append(results, Result(drifted, lenient))
        /\ late' = (late \/ drifted # {})
  BY <1>1 DEF Compare
<1> DEFINE R == Result(drifted, lenient)
<1> HIDE DEF R
<1>3. PICK S : results \in Seq(S)
  BY DEF ResultsAreListed
<1>4. Last = R
  BY <1>2, <1>3 DEF Last, R
<1>5. pc = "compare"
  BY <1>1 DEF Compare
<1> QED
  BY <1>2, <1>4, <1>5 DEF R

-----------------------------------------------------------------------------
(* What a judgement counts.                                                *)

LEMMA ImageIsFinite ==
    ASSUME NEW S, IsFiniteSet(S), NEW f, f = [x \in S |-> f[x]]
    PROVE  IsFiniteSet({f[x] : x \in S})
<1> DEFINE T == {f[x] : x \in S}
<1>1. f \in Surjection(S, T)
  BY DEF Surjection
<1> QED
  BY <1>1, FS_Surjection

\* An image without collisions is as large as what it is made of.
LEMMA ImageOfSameSize ==
    ASSUME NEW S, IsFiniteSet(S), NEW f, f = [x \in S |-> f[x]],
           \A x, y \in S : f[x] = f[y] => x = y
    PROVE  Cardinality({f[x] : x \in S}) = Cardinality(S)
<1> DEFINE T == {f[x] : x \in S}
<1>1. f \in Surjection(S, T) /\ f \in Injection(S, T)
  BY DEF Surjection, Injection, IsInjective
<1> QED
  BY <1>1, FS_Surjection

\* The cells of a table, with those of the invented rows, are finite; so are a table's
\* discrepancies.
LEMMA FoundIsFinite ==
    ASSUME IInv, NEW t \in Table
    PROVE  /\ IsFiniteSet(Found(t))
           /\ \A d \in Found(t) :
                 d[1] = t /\ d[2] \in Key \cup {INVENTED_KEYS} /\ d[3] \in Column \cup {""} /\ d[4] \in Class
<1> DEFINE K == Key \cup {INVENTED_KEYS}
           C == Column \cup {""}
           S == (K \X C) \X Class
           f == [a \in S |-> <<t, a[1][1], a[1][2], a[2]>>]
           T == {f[a] : a \in S}
<1>1. IsFiniteSet(K) /\ IsFiniteSet(C) /\ IsFiniteSet(Class)
  BY SizeAssumption, FS_AddElement
<1>2. IsFiniteSet(S)
  BY <1>1, FS_Product
<1>3. IsFiniteSet(T)
  <2>1. f = [a \in S |-> f[a]]
    OBVIOUS
  <2> HIDE DEF f, S
  <2> QED
    BY <1>2, <2>1, ImageIsFinite
<1>4. \A k \in K, x \in C, c \in Class : <<t, k, x, c>> \in T
  <2> TAKE k \in K, x \in C, c \in Class
  <2> DEFINE a == <<<<k, x>>, c>>
  <2>1. a \in S /\ f[a] = <<t, k, x, c>>
    OBVIOUS
  <2> QED
    BY <2>1
<1>5. \A k \in Key : k \in InBoth(t) => CellsOf(t, k) \subseteq Defect
  <2> SUFFICES ASSUME NEW k \in Key, k \in InBoth(t) PROVE CellsOf(t, k) \subseteq Defect
    OBVIOUS
  <2>1. raw[<<t, k>>].bad \subseteq Defect
    BY DEF InBoth, InRaw, IInv, CopyInv, Types, Stored
  <2>2. Column \X {"value_mismatch"} \subseteq Defect
    BY SettingsAssumption DEF Defect
  <2> QED
    BY <2>1, <2>2 DEF CellsOf
<1>6. ASSUME NEW d \in Found(t)
      PROVE  \E k \in K, x \in C, c \in Class : d = <<t, k, x, c>>
  <2>1. "missing_in_target" \in Class /\ "extra_in_target" \in Class
    BY SettingsAssumption DEF RowClass
  <2>2. AsOf(t) \subseteq Key /\ InRaw(t) \subseteq K
    BY DEF AsOf, Held, InRaw
  <2>3. CASE d \in {<<t, k, "", "missing_in_target">> : k \in Missing(t)}
    BY <2>1, <2>2, <2>3 DEF Missing
  <2>4. CASE d \in {<<t, k, "", "extra_in_target">> : k \in Extra(t)}
    BY <2>1, <2>2, <2>4 DEF Extra
  <2>5. CASE d \in UNION {{<<t, k, e[1], e[2]>> : e \in CellsOf(t, k)} : k \in InBoth(t)}
    <3>1. PICK k \in InBoth(t) : \E e \in CellsOf(t, k) : d = <<t, k, e[1], e[2]>>
      BY <2>5
    <3>2. PICK e \in CellsOf(t, k) : d = <<t, k, e[1], e[2]>>
      BY <3>1
    <3>3. k \in Key
      BY <2>2 DEF InBoth
    <3>4. e \in Column \X Class
      BY <1>5, <3>3 DEF Defect
    <3>5. e[1] \in Column /\ e[2] \in Class
      BY <3>4
    <3> QED
      BY <3>2, <3>3, <3>5
  <2> QED
    BY <2>3, <2>4, <2>5 DEF Found
<1> HIDE DEF T
<1>7. Found(t) \subseteq T
  <2> SUFFICES ASSUME NEW d \in Found(t) PROVE d \in T
    OBVIOUS
  <2>1. PICK k \in K, x \in C, c \in Class : d = <<t, k, x, c>>
    BY <1>6
  <2> QED
    BY <1>4, <2>1
<1>8. IsFiniteSet(Found(t))
  BY <1>3, <1>7, FS_Subset
<1>9. ASSUME NEW d \in Found(t)
      PROVE  d[1] = t /\ d[2] \in K /\ d[3] \in C /\ d[4] \in Class
  <2>1. PICK k \in K, x \in C, c \in Class : d = <<t, k, x, c>>
    BY <1>6
  <2> QED
    BY <2>1
<1> QED
  BY <1>8, <1>9

\* A limit of none lets nothing pass.
LEMMA NoneOverLimit ==
    ASSUME IInv, NEW t \in Table, ~OverLimit(t), NEW d \in Found(t)
    PROVE  Limit[d[4]] > 0
<1> DEFINE S == {e \in Found(t) : e[4] = d[4]}
<1>1. IsFiniteSet(S)
  <2>1. S \in SUBSET Found(t)
    OBVIOUS
  <2> HIDE DEF S
  <2> QED
    BY <2>1, FoundIsFinite, FS_Subset
<1>2. S # {}
  OBVIOUS
<1>3. d[4] \in Class
  BY FoundIsFinite
<1>4. ~(Cardinality(S) > Limit[d[4]]) /\ Limit[d[4]] \in Nat
  BY <1>3, ParallelAssumption DEF OverLimit
<1> HIDE DEF S
<1>5. Cardinality(S) \in Nat /\ Cardinality(S) # 0
  BY <1>1, <1>2, FS_CardinalityType, FS_EmptySet
<1> QED
  BY <1>4, <1>5

\* A table that passes is copied right.
LEMMA PassingIsRight ==
    ASSUME IInv, NEW t \in Table, TablePasses(t)
    PROVE  CopyIsRight(t)
<1>1. ~OverLimit(t)
  BY DEF TablePasses
<1>2. ASSUME NEW d \in Found(t)
      PROVE  d[4] \notin RowClass \cup {"value_mismatch"} /\ Limit[d[4]] > 0
  <2>1. Limit[d[4]] > 0
    BY <1>1, NoneOverLimit
  <2> QED
    BY <2>1, SettingsAssumption
<1>3. Missing(t) = {} /\ Extra(t) = {}
  <2>1. \A k \in Missing(t) : <<t, k, "", "missing_in_target">> \in Found(t)
    BY DEF Found
  <2>2. \A k \in Extra(t) : <<t, k, "", "extra_in_target">> \in Found(t)
    BY DEF Found
  <2> QED
    BY <1>2, <2>1, <2>2 DEF RowClass
<1>4. ASSUME NEW k \in InBoth(t), NEW x, NEW c, <<x, c>> \in CellsOf(t, k)
      PROVE  c # "value_mismatch" /\ Limit[c] > 0
  <2>1. <<t, k, x, c>> \in {<<t, k, e[1], e[2]>> : e \in CellsOf(t, k)}
    BY <1>4
  <2>2. <<t, k, x, c>> \in Found(t)
    BY <2>1 DEF Found
  <2> QED
    BY <1>2, <2>2
<1>5. \A k \in InRaw(t) : k \in Held(t)
  BY <1>3 DEF Extra, AsOf, InFlight
<1>6. ASSUME NEW k \in Held(t), legacy[<<t, k>>] <= watermark[t]
      PROVE  /\ <<t, k>> \in DOMAIN raw /\ raw[<<t, k>>].at = legacy[<<t, k>>]
             /\ \A d \in raw[<<t, k>>].bad : Limit[d[2]] > 0 \/ <<t, d[1], d[2]>> \in Neutral
  <2>1. k \in InBoth(t) /\ <<t, k>> \in DOMAIN raw
    BY <1>3, <1>6 DEF AsOf, Missing, InBoth, InRaw
  <2>2. raw[<<t, k>>].at = legacy[<<t, k>>]
    <3> SUFFICES ASSUME raw[<<t, k>>].at # legacy[<<t, k>>] PROVE FALSE
      OBVIOUS
    <3>1. PICK x : x \in Column
      BY SizeAssumption
    <3>2. <<t, x, "value_mismatch">> \notin Neutral
      BY SettingsAssumption
    <3>3. <<x, "value_mismatch">> \in CellsOf(t, k)
      BY <3>1, <3>2 DEF CellsOf
    <3> QED
      BY <1>4, <2>1, <3>3
  <2>3. ASSUME NEW d \in raw[<<t, k>>].bad, <<t, d[1], d[2]>> \notin Neutral
        PROVE  Limit[d[2]] > 0
    <3>1. d \in Column \X Class
      BY <2>1 DEF IInv, CopyInv, Types, Stored, Defect
    <3>2. d = <<d[1], d[2]>>
      BY <3>1
    <3>3. d \in CellsOf(t, k)
      BY <2>2, <2>3 DEF CellsOf
    <3> QED
      BY <1>4, <2>1, <3>2, <3>3
  <2> QED
    BY <2>1, <2>2, <2>3
<1> QED
  BY <1>5, <1>6 DEF CopyIsRight

-----------------------------------------------------------------------------
(* The copy as it is compared, on a night on which nothing went wrong      *)
(* outside.                                                                *)

\* It has every row up to the night that the job at work loads, in Postgres's version,
\* and of the other keys only an invented one.
LEMMA CopyTonight ==
    ASSUME IInv, pc = "compare", ~late
    PROVE  /\ RunAt \in Nat /\ (AsDelivered <=> ~Fixed)
           /\ \A t \in Table : watermark[t] = RunAt
           /\ \A r \in DOMAIN raw : r[2] # INVENTED_KEYS =>
                  r \in DOMAIN legacy \ LeftOut /\ legacy[r] <= RunAt /\ raw[r].at = legacy[r]
           /\ \A r \in DOMAIN raw : r[2] = INVENTED_KEYS => r \in Off
           /\ \A r \in DOMAIN raw \ Off : raw[r].bad = WrongOf(r)
           /\ \A r \in DOMAIN legacy \ (LeftOut \cup Off) : legacy[r] <= RunAt => r \in DOMAIN raw
<1>1. RunAt \in Nat /\ (AsDelivered <=> ~Fixed)
  <2>1. night \in Nat /\ fixNight \in Nat
    BY Constants DEF IInv, CopyInv, Types
  <2> QED
    BY <2>1 DEF RunAt, AsDelivered, Fixed, Unloaded
<1>2. /\ \A t \in Table : watermark[t] = RunAt
      /\ \A r \in DOMAIN legacy \ (LeftOut \cup Off) :
             legacy[r] <= RunAt => r \in DOMAIN raw /\ raw[r].at = legacy[r]
  BY DEF IInv, CopyInv, CopyIsTonights, Loaded
<1>3. ASSUME NEW r \in DOMAIN raw, r[2] # INVENTED_KEYS
      PROVE  r \in DOMAIN legacy \ LeftOut /\ legacy[r] <= RunAt /\ raw[r].at = legacy[r]
  <2>1. r \in DOMAIN legacy \ LeftOut /\ legacy[r] <= RunAt
    BY <1>3 DEF IInv, CopyInv, CopyIsOfRows, NothingNewer, Loaded
  <2>2. CASE r \notin Off
    BY <1>2, <2>1, <2>2
  <2>3. CASE r \in Off
    <3>1. PICK p \in planted : r = <<p.table, p.key>>
      BY <2>3 DEF Off
    <3>2. p.class \in CellClass
      <4>1. p.class \in Class /\ p.key # INVENTED_KEYS
        BY <1>3, <3>1, OnCell DEF IInv
      <4>2. p.class # "extra_in_target"
        BY <4>1, OnCell DEF IInv
      <4>3. p.class # "missing_in_target"
        BY <3>1 DEF IInv, CopyInv, FaultStands
      <4> QED
        BY <4>1, <4>2, <4>3 DEF CellClass, RowClass
    <3>3. raw[r].at = legacy[r]
      BY <3>1, <3>2 DEF IInv, CopyInv, FaultStands, Loaded
    <3> QED
      BY <2>1, <3>3
  <2> QED
    BY <2>2, <2>3
<1>4. /\ \A r \in DOMAIN raw : r[2] = INVENTED_KEYS => r \in Off
      /\ \A r \in DOMAIN raw \ Off : raw[r].bad = WrongOf(r)
  BY DEF IInv, CopyInv, CopyIsOfRows
<1> QED
  BY <1>1, <1>2, <1>3, <1>4

\* So the comparison by keys comes to this.
LEMMA KeysTonight ==
    ASSUME IInv, pc = "compare", ~late, NEW t \in Table
    PROVE  /\ \A k : k \in AsOf(t) <=> <<t, k>> \in DOMAIN legacy /\ legacy[<<t, k>>] <= RunAt
           /\ \A k : k \in Missing(t) <=> /\ <<t, k>> \in DOMAIN legacy /\ legacy[<<t, k>>] <= RunAt
                                          /\ <<t, k>> \notin DOMAIN raw
           /\ \A k : k \in Extra(t) <=> k = INVENTED_KEYS /\ <<t, k>> \in DOMAIN raw
           /\ \A k : k \in InBoth(t) <=> k # INVENTED_KEYS /\ <<t, k>> \in DOMAIN raw
           /\ \A k \in InBoth(t) :
                  CellsOf(t, k) = {d \in raw[<<t, k>>].bad : <<t, d[1], d[2]>> \notin Neutral}
<1>1. INVENTED_KEYS \notin Key
  BY Invented, ParallelAssumption
<1>2. DOMAIN legacy \subseteq Row /\ DOMAIN raw \subseteq Table \X (Key \cup {INVENTED_KEYS})
  BY DEF IInv, CopyInv, Types
<1>3. \A k : <<t, k>> \in DOMAIN legacy => k \in Key /\ k # INVENTED_KEYS
  BY <1>1, <1>2 DEF Row
<1>4. \A k : <<t, k>> \in DOMAIN raw => k \in Key \cup {INVENTED_KEYS}
  BY <1>2
<1>5. \A k : k \in Held(t) <=> <<t, k>> \in DOMAIN legacy
  BY <1>3 DEF Held
<1>6. \A k : k \in AsOf(t) <=> <<t, k>> \in DOMAIN legacy /\ legacy[<<t, k>>] <= RunAt
  BY <1>5, CopyTonight DEF AsOf
<1>7. \A k : k \in InRaw(t) <=> <<t, k>> \in DOMAIN raw
  BY <1>4 DEF InRaw
<1>8. \A k : <<t, k>> \in DOMAIN raw /\ k # INVENTED_KEYS =>
          <<t, k>> \in DOMAIN legacy /\ legacy[<<t, k>>] <= RunAt /\ raw[<<t, k>>].at = legacy[<<t, k>>]
  <2> TAKE k
  <2> DEFINE r == <<t, k>>
  <2>1. r[2] = k
    OBVIOUS
  <2>2. \A q \in DOMAIN raw : q[2] # INVENTED_KEYS =>
            q \in DOMAIN legacy \ LeftOut /\ legacy[q] <= RunAt /\ raw[q].at = legacy[q]
    BY CopyTonight
  <2> HIDE DEF r
  <2>3. r \in DOMAIN raw /\ k # INVENTED_KEYS =>
            r \in DOMAIN legacy /\ legacy[r] <= RunAt /\ raw[r].at = legacy[r]
    BY <2>1, <2>2
  <2> QED
    BY <2>3 DEF r
<1>9. \A k : k \in Extra(t) <=> k = INVENTED_KEYS /\ <<t, k>> \in DOMAIN raw
  <2>1. \A k : k \in Extra(t) <=> <<t, k>> \in DOMAIN raw /\ <<t, k>> \notin DOMAIN legacy
    BY <1>5, <1>7 DEF Extra, InFlight, AsOf
  <2> QED
    BY <1>3, <1>8, <2>1
<1>10. \A k : k \in InBoth(t) <=> k # INVENTED_KEYS /\ <<t, k>> \in DOMAIN raw
  BY <1>3, <1>6, <1>7, <1>8 DEF InBoth
<1>11. \A k : k \in Missing(t) <=> /\ <<t, k>> \in DOMAIN legacy /\ legacy[<<t, k>>] <= RunAt
                                   /\ <<t, k>> \notin DOMAIN raw
  BY <1>6, <1>7 DEF Missing
<1>12. ASSUME NEW k \in InBoth(t)
       PROVE  CellsOf(t, k) = {d \in raw[<<t, k>>].bad : <<t, d[1], d[2]>> \notin Neutral}
  <2>1. raw[<<t, k>>].at = legacy[<<t, k>>]
    BY <1>8, <1>10
  <2> QED
    BY <2>1 DEF CellsOf
<1> QED
  BY <1>6, <1>9, <1>10, <1>11, <1>12

\* What differs upstream of a report differs in the tables that are compared.
LEMMA UpstreamIsFound ==
    ASSUME IInv, pc = "compare", ~late, NEW r \in Report, NEW t \in Table, NEW x \in Column
    PROVE  /\ RowsOf(frozen[r], t) # MartRowsOf(t) => t \in Rows
           /\ WrongIn(t, x) # {} => <<t, x>> \in Cells
<1>1. frozen[r] = Upto /\ marts = raw
  BY DEF IInv, FrozenTogether, MartsAreRaw, Loaded
<1>2. /\ DOMAIN legacy \subseteq Row /\ DOMAIN raw \subseteq Table \X (Key \cup {INVENTED_KEYS})
      /\ DOMAIN Upto = {q \in DOMAIN legacy : legacy[q] <= RunAt}
      /\ \A q \in DOMAIN Upto : Upto[q] = legacy[q]
  BY DEF IInv, CopyInv, Types, Upto
<1>3. /\ \A q \in DOMAIN legacy : q = <<q[1], q[2]>>
      /\ \A q \in DOMAIN raw : q = <<q[1], q[2]>>
  BY <1>2 DEF Row
<1>4. ASSUME t \notin Rows
      PROVE  RowsOf(frozen[r], t) = MartRowsOf(t)
  <2>1. \A k : k \notin Missing(t) /\ k \notin Extra(t)
    BY <1>4 DEF Rows
  <2>2. \A q \in DOMAIN raw : q[1] = t => q \in DOMAIN Upto /\ raw[q].at = Upto[q]
    <3> SUFFICES ASSUME NEW q \in DOMAIN raw, q[1] = t
                 PROVE  q \in DOMAIN Upto /\ raw[q].at = Upto[q]
      OBVIOUS
    <3>1. q[2] # INVENTED_KEYS
      <4>1. q = <<t, q[2]>>
        BY <1>3
      <4> QED
        BY <2>1, <4>1, KeysTonight
    <3>2. q \in DOMAIN legacy /\ legacy[q] <= RunAt /\ raw[q].at = legacy[q]
      BY <3>1, CopyTonight
    <3> QED
      BY <1>2, <3>2
  <2>3. \A q \in DOMAIN Upto : q[1] = t => q \in DOMAIN raw
    <3> SUFFICES ASSUME NEW q \in DOMAIN Upto, q[1] = t PROVE q \in DOMAIN raw
      OBVIOUS
    <3>1. q \in DOMAIN legacy /\ legacy[q] <= RunAt
      BY <1>2
    <3>2. q = <<t, q[2]>>
      BY <1>3, <3>1
    <3> DEFINE k == q[2]
    <3>3. <<t, k>> \in DOMAIN legacy /\ legacy[<<t, k>>] <= RunAt /\ q = <<t, k>>
      BY <3>1, <3>2
    <3> HIDE DEF k
    <3>4. <<t, k>> \in DOMAIN raw
      BY <2>1, <3>3, KeysTonight
    <3> QED
      BY <3>3, <3>4
  <2> DEFINE A == {q \in DOMAIN Upto : q[1] = t}
             B == {q \in DOMAIN raw : q[1] = t}
  <2>4. A = B /\ \A q \in A : raw[q].at = Upto[q]
    BY <2>2, <2>3
  <2>5. RowsOf(frozen[r], t) = {<<q[2], Upto[q]>> : q \in A} /\ MartRowsOf(t) = {<<q[2], raw[q].at>> : q \in B}
    BY <1>1 DEF RowsOf, MartRowsOf
  <2> HIDE DEF A, B
  <2> QED
    BY <2>4, <2>5
<1>5. ASSUME WrongIn(t, x) # {}
      PROVE  <<t, x>> \in Cells
  <2>1. PICK c \in Class, q \in DOMAIN raw : <<t, x, c>> \notin Neutral /\ q[1] = t /\ <<x, c>> \in raw[q].bad
    BY <1>1, <1>5 DEF WrongIn
  <2> DEFINE k == q[2]
  <2>2. q = <<t, k>>
    BY <1>3, <2>1
  <2> HIDE DEF k
  <2>3. k # INVENTED_KEYS
    <3> SUFFICES ASSUME k = INVENTED_KEYS PROVE FALSE
      OBVIOUS
    <3>1. q \in Off
      BY <2>2, CopyTonight
    <3>2. PICK p \in planted : q = <<p.table, p.key>>
      BY <3>1 DEF Off
    <3>3. p.class = "extra_in_target"
      <4>1. p.key = INVENTED_KEYS
        BY <2>2, <3>2
      <4> QED
        BY <4>1, OnCell DEF IInv
    <3>4. raw[q].bad = {}
      BY <3>2, <3>3 DEF IInv, CopyInv, FaultStands
    <3> QED
      BY <2>1, <3>4
  <2>4. k \in InBoth(t)
    BY <2>2, <2>3, KeysTonight
  <2>5. CellsOf(t, k) = {d \in raw[q].bad : <<t, d[1], d[2]>> \notin Neutral}
    BY <2>2, <2>4, KeysTonight
  <2>6. <<x, c>> \in CellsOf(t, k)
    BY <2>1, <2>5
  <2>7. k \in DifferingIn(t, x)
    BY <2>4, <2>6 DEF DifferingIn
  <2> QED
    BY <2>7 DEF Cells
<1> QED
  BY <1>4, <1>5

\* Nothing is planted and the fixed job is at work: the copy is that of Postgres.
LEMMA RightNight ==
    ASSUME IInv, pc = "compare", ~late, planted = {}, ~AsDelivered
    PROVE  \A t \in Table : /\ Missing(t) = {} /\ Extra(t) = {} /\ Found(t) = {}
                            /\ InBoth(t) = AsOf(t) /\ \A k \in InBoth(t) : CellsOf(t, k) = {}
<1> SUFFICES ASSUME NEW t \in Table
             PROVE  /\ Missing(t) = {} /\ Extra(t) = {} /\ Found(t) = {}
                    /\ InBoth(t) = AsOf(t) /\ \A k \in InBoth(t) : CellsOf(t, k) = {}
  OBVIOUS
<1>1. Off = {} /\ LeftOut = {} /\ \A r : WrongOf(r) = {}
  BY CopyTonight DEF Off, LeftOut, WrongOf
<1>2. Missing(t) = {}
  <2> SUFFICES ASSUME NEW k \in Missing(t) PROVE FALSE
    OBVIOUS
  <2> DEFINE r == <<t, k>>
  <2>1. r \in DOMAIN legacy /\ legacy[r] <= RunAt /\ r \notin DOMAIN raw
    BY KeysTonight
  <2> HIDE DEF r
  <2> QED
    BY <1>1, <2>1, CopyTonight
<1>3. Extra(t) = {}
  <2> SUFFICES ASSUME NEW k \in Extra(t) PROVE FALSE
    OBVIOUS
  <2> DEFINE r == <<t, k>>
  <2>1. r \in DOMAIN raw /\ r[2] = INVENTED_KEYS
    BY KeysTonight
  <2> HIDE DEF r
  <2> QED
    BY <1>1, <2>1, CopyTonight
<1>4. ASSUME NEW k \in InBoth(t)
      PROVE  CellsOf(t, k) = {}
  <2> DEFINE r == <<t, k>>
  <2>1. r \in DOMAIN raw
    BY KeysTonight
  <2>2. CellsOf(t, k) = {d \in raw[r].bad : <<t, d[1], d[2]>> \notin Neutral}
    BY KeysTonight
  <2> HIDE DEF r
  <2>3. raw[r].bad = {}
    BY <1>1, <2>1, CopyTonight
  <2> QED
    BY <2>2, <2>3
<1>5. Found(t) = {}
  BY <1>2, <1>3, <1>4 DEF Found
<1>6. InBoth(t) = AsOf(t)
  BY <1>2 DEF Missing, InBoth
<1> QED
  BY <1>2, <1>3, <1>4, <1>5, <1>6

\* A share of the whole is at least the least share.
LEMMA Shares ==
    ASSUME NEW S, IsFiniteSet(S)
    PROVE  ~(100 * Cardinality(S) < MinRate * Cardinality(S))
<1> DEFINE n == Cardinality(S)
<1>1. n \in Nat /\ MinRate \in 0..100
  BY FS_CardinalityType, Constants
<1> HIDE DEF n
<1>2. \A m \in 0..100 : ~(100 * n < m * n)
  BY <1>1
<1> QED
  BY <1>1, <1>2 DEF n

\* So every pair passes, unless the new SQL of a report does compute something else.
LEMMA RightNightIsClean ==
    ASSUME IInv, pc = "compare", ~late, planted = {}, ~AsDelivered, logic = {}, NEW lenient
    PROVE  Clean(Result({}, lenient))
<1>1. ASSUME NEW t \in Table PROVE TablePasses(t)
  <2>1. /\ Found(t) = {} /\ InBoth(t) = AsOf(t) /\ IsFiniteSet(AsOf(t))
        /\ \A x : DifferingIn(t, x) = {}
    <3>1. AsOf(t) \in SUBSET Key
      BY DEF AsOf, Held
    <3>2. IsFiniteSet(AsOf(t))
      BY <3>1, SizeAssumption, FS_Subset
    <3> QED
      BY <3>2, RightNight DEF DifferingIn
  <2>2. ~Stale(t)
    <3>1. RunAt \in Nat /\ watermark[t] = RunAt /\ MaxLag \in Nat
      BY CopyTonight, Constants
    <3> QED
      BY <3>1 DEF Stale
  <2>3. ~BelowRate(t)
    <3>1. UNION {DifferingIn(t, x) : x \in Column} = {}
      BY <2>1
    <3>2. ~(100 * Cardinality(AsOf(t)) < MinRate * Cardinality(AsOf(t)))
      BY <2>1, Shares
    <3>3. AsOf(t) \ {} = AsOf(t)
      OBVIOUS
    <3> QED
      BY <2>1, <3>1, <3>2, <3>3 DEF BelowRate
  <2>4. ~OverLimit(t)
    <3>1. \A c \in Class : {d \in Found(t) : d[4] = c} = {} /\ Limit[c] \in Nat
      BY <2>1, ParallelAssumption
    <3>2. \A c \in Class : ~(0 > Limit[c])
      BY <3>1
    <3> QED
      BY <3>1, <3>2, FS_EmptySet DEF OverLimit
  <2> QED
    BY <2>2, <2>3, <2>4 DEF TablePasses
<1>2. ASSUME NEW r \in Report PROVE DifferingColumns(r) = {}
  <2>1. \A t \in Table, x \in Column : RowsOf(frozen[r], t) = MartRowsOf(t) /\ WrongIn(t, x) = {}
    <3> TAKE t \in Table, x \in Column
    <3>1. t \notin Rows
      BY RightNight DEF Rows
    <3>2. <<t, x>> \notin Cells
      BY RightNight DEF Cells, DifferingIn
    <3> QED
      BY <3>1, <3>2, UpstreamIsFound
  <2>2. ASSUME NEW c \in ReportColumn PROVE ~DiffersUpstream(r, c)
    <3>1. \A d \in Depends[r][c] : d[1] \in Table /\ d[2] \in Column
      BY ParallelAssumption
    <3> QED
      BY <2>1, <3>1 DEF DiffersUpstream
  <2> QED
    BY <2>2 DEF DifferingColumns
<1>3. \A p \in Table \cup Report : Passes(p, {}, lenient)
  BY <1>1, <1>2 DEF Passes
<1>4. \A r \in Report : Explained(r)
  BY <1>2 DEF Explained
<1> QED
  BY <1>3, <1>4 DEF Clean, Result

\* A night is judged clean only if every copy is right and no report computes anything
\* else, whatever was planted, committed late or stopped; and a night on which the fixed
\* job is at work, nothing stands planted and nothing went wrong outside is judged clean.
THEOREM CleanIsRight == Spec => CleanNightsAreRight
<1> DEFINE Half1 == Clean(Last) => logic = {} /\ \A t \in Table : CopyIsRight(t)
           Half2 == (~late' /\ planted = {} /\ ~AsDelivered /\ logic = {}) => Clean(Last)
<1>1. ASSUME IInv, ResultsAreListed, [Next]_vars, Judged
      PROVE  Half1 /\ Half2
  <2>1. PICK drifted, lenient :
             /\ Last = Result(drifted, lenient) /\ lenient \subseteq {r \in Report : OnlyRounded(r)}
             /\ pc = "compare" /\ late' = (late \/ drifted # {})
    BY <1>1, Judging
  <2>2. ASSUME Clean(Last)
        PROVE  logic = {} /\ \A t \in Table : CopyIsRight(t)
    <3>1. \A p \in Table \cup Report : Passes(p, drifted, lenient)
      BY <2>1, <2>2 DEF Clean, Result
    <3>2. ASSUME NEW t \in Table PROVE CopyIsRight(t)
      BY <1>1, <3>1, PassingIsRight DEF Passes
    <3>3. logic = {}
      <4> SUFFICES ASSUME NEW l \in logic PROVE FALSE
        OBVIOUS
      <4>1. l \in Report \X ReportColumn
        BY <1>1, ParallelAssumption DEF IInv, CopyInv, Types
      <4>2. PICK r \in Report, c \in ReportColumn : l = <<r, c>>
        BY <4>1
      <4>3. c \in DifferingColumns(r)
        BY <4>2 DEF DifferingColumns
      <4>4. r \notin Table
        BY SizeAssumption
      <4>5. r \in lenient
        BY <3>1, <4>3, <4>4 DEF Passes
      <4>6. OnlyRounded(r)
        BY <2>1, <4>5
      <4> QED
        BY <4>2, <4>3, <4>6 DEF OnlyRounded
    <3> QED
      BY <3>2, <3>3
  <2>3. ASSUME ~late', planted = {}, ~AsDelivered, logic = {}
        PROVE  Clean(Last)
    <3>1. ~late /\ drifted = {}
      BY <2>1, <2>3
    <3> QED
      BY <1>1, <2>1, <2>3, <3>1, RightNightIsClean
  <2> QED
    BY <2>2, <2>3
<1>2. IInv /\ ResultsAreListed /\ [Next]_vars => [Judged => Half1 /\ Half2]_vars
  BY <1>1
<1> QED
  BY <1>2, ResultsStay, PTL DEF Spec, CleanNightsAreRight

\* When a report's own logic is not at fault, what differs is explained by the tables.
LEMMA ExplainedTonight ==
    ASSUME IInv, pc = "compare", ~late, NEW r \in Report,
           \A c \in ReportColumn : <<r, c>> \notin logic
    PROVE  Explained(r)
<1>1. ASSUME NEW c \in DifferingColumns(r)
      PROVE  c \in ReportColumn /\ \E d \in Depends[r][c] : d \in Cells \/ d[1] \in Rows
  <2>1. c \in ReportColumn /\ DiffersUpstream(r, c)
    BY DEF DifferingColumns
  <2>2. PICK d \in Depends[r][c] : RowsOf(frozen[r], d[1]) # MartRowsOf(d[1]) \/ WrongIn(d[1], d[2]) # {}
    BY <2>1 DEF DiffersUpstream
  <2>3. d \in Table \X Column
    BY <2>1, ParallelAssumption
  <2>4. d[1] \in Table /\ d[2] \in Column /\ d = <<d[1], d[2]>>
    BY <2>3
  <2>5. d[1] \in Rows \/ <<d[1], d[2]>> \in Cells
    BY <2>2, <2>4, UpstreamIsFound
  <2> QED
    BY <2>1, <2>4, <2>5
<1> DEFINE upstream == UNION {Depends[r][c] : c \in ReportColumn}
<1>2. CASE DifferingColumns(r) # {} /\ ~Traced(r)
  <2>1. PICK c \in DifferingColumns(r) : TRUE
    BY <1>2
  <2>2. PICK d \in Depends[r][c] : d \in Cells \/ d[1] \in Rows
    BY <1>1
  <2>3. c \in ReportColumn
    BY <1>1
  <2>4. d \in upstream
    BY <2>3
  <2> HIDE DEF upstream
  <2>5. d[1] \in {e[1] : e \in upstream} \cap (Rows \cup {e[1] : e \in Cells})
    BY <2>2, <2>4
  <2> QED
    BY <1>2, <2>5 DEF Explained, upstream
<1>3. CASE Traced(r)
  BY <1>1, <1>3 DEF Explained
<1> QED
  BY <1>2, <1>3 DEF Explained

\* A column that computes something else is not excused by another column's difference.
LEMMA LogicIsNotExplained ==
    ASSUME NEW r \in Report, NEW c \in ReportColumn, <<r, c>> \in logic, r \notin Untraced,
           \A d \in Depends[r][c] : d \notin Cells /\ d[1] \notin Rows
    PROVE  ~Explained(r)
<1>1. c \in DifferingColumns(r) /\ Traced(r)
  BY DEF DifferingColumns, Traced
<1> QED
  BY <1>1 DEF Explained

\* A report is left unexplained only for its own logic; and, where its lineage is traced,
\* a column that computes something else leaves it unexplained unless something differs
\* upstream of that very column.
THEOREM UnexplainedIsLogic == Spec => OnlyLogicIsUnexplained
<1> DEFINE Half1(r) == r \in Last.unexplained /\ ~late => \E c \in ReportColumn : <<r, c>> \in logic
           Excused(r, c) == /\ <<r, c>> \in logic /\ r \notin Untraced /\ ~late'
                            /\ \A d \in Depends[r][c] : d \notin Cells /\ d[1] \notin Rows
           Half2(r) == \A c \in ReportColumn : Excused(r, c) => r \in Last.unexplained
<1>1. ASSUME IInv, ResultsAreListed, [Next]_vars, Judged, NEW r \in Report
      PROVE  Half1(r) /\ Half2(r)
  <2>1. PICK drifted, lenient :
             Last = Result(drifted, lenient) /\ pc = "compare" /\ late' = (late \/ drifted # {})
    BY <1>1, Judging
  <2>2. Last.unexplained = {s \in Report \ drifted : ~Explained(s)}
    BY <2>1 DEF Result
  <2>3. ASSUME r \in Last.unexplained, ~late
        PROVE  \E c \in ReportColumn : <<r, c>> \in logic
    BY <1>1, <2>1, <2>2, <2>3, ExplainedTonight
  <2>4. ASSUME NEW c \in ReportColumn, Excused(r, c)
        PROVE  r \in Last.unexplained
    <3>1. ~Explained(r) /\ drifted = {}
      BY <1>1, <2>1, <2>4, LogicIsNotExplained
    <3> QED
      BY <2>2, <3>1
  <2> QED
    BY <2>3, <2>4
<1>2. IInv /\ ResultsAreListed /\ [Next]_vars =>
          [Judged => \A r \in Report :
              /\ r \in Last.unexplained /\ ~late => \E c \in ReportColumn : <<r, c>> \in logic
              /\ \A c \in ReportColumn :
                  /\ <<r, c>> \in logic /\ r \notin Untraced /\ ~late'
                  /\ \A d \in Depends[r][c] : d \notin Cells /\ d[1] \notin Rows
                  => r \in Last.unexplained]_vars
  BY <1>1
<1> QED
  BY <1>2, ResultsStay, PTL DEF Spec, OnlyLogicIsUnexplained

-----------------------------------------------------------------------------
(* The grade.                                                              *)

\* At most one fault stands, and none while the delivered job is at work.
LEMMA OneFault ==
    ASSUME IInv
    PROVE  /\ \A p, q \in planted : p = q
           /\ ~Fixed => planted = {} /\ Off = {}
<1>1. IsFiniteSet(planted) /\ Cardinality(planted) <= 1 /\ Cardinality(planted) \in Nat
  BY FS_CardinalityType DEF IInv, CopyInv, Types
<1>2. planted = {} \/ \E p : planted = {p}
  <2>1. Cardinality(planted) = 0 \/ Cardinality(planted) = 1
    BY <1>1
  <2> QED
    BY <1>1, <2>1, FS_EmptySet, FS_Singleton
<1>3. ~Fixed => planted = {}
  BY DEF IInv, CopyInv, FaultsAreRepaired
<1> QED
  BY <1>2, <1>3 DEF Off

\* What a fault that stands says, by its class.
LEMMA FaultTonight ==
    ASSUME IInv, pc = "compare", ~late, NEW p \in planted
    PROVE  LET r == <<p.table, p.key>>
           IN  /\ Fixed /\ p.table \in Table
               /\ \/ /\ p.class = "missing_in_target" /\ p.column = "" /\ p.key # INVENTED_KEYS
                     /\ r \in DOMAIN legacy /\ legacy[r] <= RunAt /\ r \notin DOMAIN raw
                  \/ /\ p.class = "extra_in_target" /\ p.column = "" /\ p.key = INVENTED_KEYS
                     /\ r \in DOMAIN raw
                  \/ /\ p.class \in CellClass /\ p.key # INVENTED_KEYS
                     /\ r \in DOMAIN raw /\ raw[r].bad = {<<p.column, p.class>>}
<1> DEFINE r == <<p.table, p.key>>
<1>1. /\ Fixed /\ p.table \in Table /\ p.class \in Class /\ r \in Off /\ r[2] = p.key
      /\ p.class \in RowClass => p.column = ""
      /\ p.class = "extra_in_target" <=> p.key = INVENTED_KEYS
      /\ p.key # INVENTED_KEYS => r \in DOMAIN legacy
  BY OneFault, OnCell DEF IInv, Off
<1>2. /\ p.class = "missing_in_target" => r \notin DOMAIN raw
      /\ p.class = "extra_in_target" => r \in DOMAIN raw
      /\ p.class \in CellClass => r \in DOMAIN raw /\ raw[r].bad = {<<p.column, p.class>>}
  BY DEF IInv, CopyInv, FaultStands
<1>3. p.key # INVENTED_KEYS => legacy[r] <= RunAt
  BY <1>1 DEF IInv, CopyInv, NothingNewer, Loaded
<1>4. p.class \in {"missing_in_target", "extra_in_target"} \cup CellClass
  BY <1>1 DEF CellClass, RowClass
<1>5. p.class \in CellClass => p.class # "extra_in_target"
  BY DEF CellClass, RowClass
<1>6. "missing_in_target" \in RowClass /\ "extra_in_target" \in RowClass
  BY DEF RowClass
<1> HIDE DEF r
<1>7. \/ /\ p.class = "missing_in_target" /\ p.column = "" /\ p.key # INVENTED_KEYS
         /\ r \in DOMAIN legacy /\ legacy[r] <= RunAt /\ r \notin DOMAIN raw
      \/ /\ p.class = "extra_in_target" /\ p.column = "" /\ p.key = INVENTED_KEYS
         /\ r \in DOMAIN raw
      \/ /\ p.class \in CellClass /\ p.key # INVENTED_KEYS
         /\ r \in DOMAIN raw /\ raw[r].bad = {<<p.column, p.class>>}
  BY <1>1, <1>2, <1>3, <1>4, <1>5, <1>6
<1> QED
  BY <1>1, <1>7 DEF r

\* What is found was planted, or is what the delivered job makes of a row.
LEMMA FoundIsExpected ==
    ASSUME IInv, pc = "compare", ~late, NEW t \in Table, NEW x \in Found(t)
    PROVE  x \in Expected
<1>1. \A c : <<t, "", c>> \notin Neutral
  BY SizeAssumption, SettingsAssumption
<1>2. ASSUME NEW k, <<t, k>> \in Off
      PROVE  \E p \in planted : p.table = t /\ p.key = k
  BY <1>2 DEF Off
<1>3. ASSUME ~Fixed
      PROVE  /\ LeftOut = Lost /\ Off = {} /\ \A d \in DeliveredTruth : d \in Truth
             /\ \A r : WrongOf(r) = {d \in Defect : <<r[1], r[2], d[1], d[2]>> \in Defects}
  BY <1>3, OneFault, CopyTonight DEF LeftOut, WrongOf, Truth
<1>4. ASSUME NEW k \in Missing(t), x = <<t, k, "", "missing_in_target">>
      PROVE  x \in Truth
  <2> DEFINE r == <<t, k>>
  <2>1. r \in DOMAIN legacy /\ legacy[r] <= RunAt /\ r \notin DOMAIN raw /\ r[1] = t /\ r[2] = k
    BY KeysTonight
  <2>2. CASE Fixed
    <3>1. r \in Off
      <4> HIDE DEF r
      <4> QED
        BY <2>1, <2>2, CopyTonight DEF LeftOut
    <3>2. PICK p \in planted : p.table = t /\ p.key = k
      BY <1>2, <3>1
    <3>3. p.class = "missing_in_target" /\ p.column = ""
      BY <2>1, <3>2, FaultTonight, KeysTonight
    <3> QED
      BY <1>4, <3>2, <3>3 DEF Truth, PlantedTruth
  <2>3. CASE ~Fixed
    <3>1. r \in Lost
      <4> HIDE DEF r
      <4> QED
        BY <1>3, <2>1, <2>3, CopyTonight
    <3>2. <<r[1], r[2], "", "missing_in_target">> \in DeliveredTruth
      <4> HIDE DEF r
      <4> QED
        BY <2>1, <3>1 DEF DeliveredTruth
    <3> QED
      BY <1>3, <1>4, <2>1, <2>3, <3>2
  <2> QED
    BY <2>2, <2>3
<1>5. ASSUME NEW k \in Extra(t), x = <<t, k, "", "extra_in_target">>
      PROVE  x \in Truth
  <2> DEFINE r == <<t, k>>
  <2>1. k = INVENTED_KEYS /\ r \in DOMAIN raw /\ r[2] = k
    BY KeysTonight
  <2>2. r \in Off
    <3> HIDE DEF r
    <3> QED
      BY <2>1, CopyTonight
  <2>3. PICK p \in planted : p.table = t /\ p.key = k
    BY <1>2, <2>2
  <2>4. p.class = "extra_in_target" /\ p.column = ""
    BY <2>1, <2>3, FaultTonight
  <2> QED
    BY <1>5, <2>3, <2>4 DEF Truth, PlantedTruth
<1>6. ASSUME NEW k \in InBoth(t), NEW e \in CellsOf(t, k), x = <<t, k, e[1], e[2]>>
      PROVE  x \in Truth /\ <<t, e[1], e[2]>> \notin Neutral
  <2> DEFINE r == <<t, k>>
  <2>1. /\ k # INVENTED_KEYS /\ r \in DOMAIN raw /\ r[1] = t /\ r[2] = k
        /\ e \in raw[r].bad /\ <<t, e[1], e[2]>> \notin Neutral
    BY KeysTonight
  <2>2. r \in DOMAIN legacy /\ legacy[r] <= RunAt /\ r \notin LeftOut
    <3> HIDE DEF r
    <3> QED
      BY <2>1, CopyTonight
  <2>3. CASE r \in Off
    <3>1. PICK p \in planted : p.table = t /\ p.key = k
      BY <1>2, <2>3
    <3>2. raw[r].bad = {<<p.column, p.class>>}
      BY <2>1, <3>1, FaultTonight
    <3>3. e = <<p.column, p.class>>
      BY <2>1, <3>2
    <3>4. x = <<p.table, p.key, p.column, p.class>>
      BY <1>6, <3>1, <3>3
    <3> QED
      BY <2>1, <3>4 DEF Truth, PlantedTruth
  <2>4. CASE r \notin Off
    <3>1. e \in WrongOf(r)
      <4> HIDE DEF r
      <4> QED
        BY <2>1, <2>4, CopyTonight
    <3>2. ~Fixed
      BY <3>1 DEF WrongOf
    <3>3. <<t, k, e[1], e[2]>> \in Defects
      <4>1. <<r[1], r[2], e[1], e[2]>> \in Defects
        BY <1>3, <3>1, <3>2
      <4> QED
        BY <2>1, <4>1
    <3>4. <<t, k, e[1], e[2]>> \in DeliveredTruth
      BY <2>2, <3>3 DEF DeliveredTruth
    <3> QED
      BY <1>3, <1>6, <2>1, <3>2, <3>4
  <2> QED
    BY <2>3, <2>4
<1>7. x \in Truth /\ <<x[1], x[3], x[4]>> \notin Neutral
  <2>1. CASE x \in {<<t, k, "", "missing_in_target">> : k \in Missing(t)}
    <3>1. PICK k \in Missing(t) : x = <<t, k, "", "missing_in_target">>
      BY <2>1
    <3>2. x \in Truth
      BY <1>4, <3>1
    <3>3. x[1] = t /\ x[3] = ""
      BY <3>1
    <3> QED
      BY <1>1, <3>2, <3>3
  <2>2. CASE x \in {<<t, k, "", "extra_in_target">> : k \in Extra(t)}
    <3>1. PICK k \in Extra(t) : x = <<t, k, "", "extra_in_target">>
      BY <2>2
    <3>2. x \in Truth
      BY <1>5, <3>1
    <3>3. x[1] = t /\ x[3] = ""
      BY <3>1
    <3> QED
      BY <1>1, <3>2, <3>3
  <2>3. CASE x \in UNION {{<<t, k, d[1], d[2]>> : d \in CellsOf(t, k)} : k \in InBoth(t)}
    <3>1. PICK k \in InBoth(t) : x \in {<<t, k, d[1], d[2]>> : d \in CellsOf(t, k)}
      BY <2>3
    <3>2. PICK e \in CellsOf(t, k) : x = <<t, k, e[1], e[2]>>
      BY <3>1
    <3>3. x \in Truth /\ <<t, e[1], e[2]>> \notin Neutral
      BY <1>6, <3>2
    <3> QED
      BY <3>2, <3>3
  <2> QED
    BY <2>1, <2>2, <2>3 DEF Found
<1> QED
  BY <1>7 DEF Expected

\* All of it is found.
LEMMA ExpectedIsFound ==
    ASSUME IInv, pc = "compare", ~late, NEW x \in Expected
    PROVE  \E t \in Table : x \in Found(t)
<1>1. x \in Truth /\ <<x[1], x[3], x[4]>> \notin Neutral
  BY DEF Expected
<1>2. ASSUME NEW t, NEW k, NEW e, k \in InBoth(t), e \in CellsOf(t, k), x = <<t, k, e[1], e[2]>>
      PROVE  x \in Found(t)
  <2>1. x \in {<<t, k, d[1], d[2]>> : d \in CellsOf(t, k)}
    BY <1>2
  <2>2. x \in UNION {{<<t, j, d[1], d[2]>> : d \in CellsOf(t, j)} : j \in InBoth(t)}
    BY <1>2, <2>1
  <2> QED
    BY <2>2 DEF Found
<1>3. CASE x \in PlantedTruth
  <2>1. PICK p \in planted : x = <<p.table, p.key, p.column, p.class>>
    BY <1>3 DEF PlantedTruth
  <2> DEFINE t == p.table
             k == p.key
             r == <<t, k>>
  <2>2. t \in Table /\ x[1] = t /\ x[3] = p.column /\ x[4] = p.class
    BY <2>1, FaultTonight
  <2>3. CASE /\ p.class = "missing_in_target" /\ p.column = "" /\ k # INVENTED_KEYS
             /\ r \in DOMAIN legacy /\ legacy[r] <= RunAt /\ r \notin DOMAIN raw
    <3>1. k \in Missing(t)
      <4> HIDE DEF t, k
      <4> QED
        BY <2>2, <2>3, KeysTonight
    <3>2. x = <<t, k, "", "missing_in_target">>
      BY <2>1, <2>3
    <3> QED
      BY <2>2, <3>1, <3>2 DEF Found
  <2>4. CASE /\ p.class = "extra_in_target" /\ p.column = "" /\ k = INVENTED_KEYS
             /\ r \in DOMAIN raw
    <3>1. k \in Extra(t)
      <4> HIDE DEF t, k
      <4> QED
        BY <2>2, <2>4, KeysTonight
    <3>2. x = <<t, k, "", "extra_in_target">>
      BY <2>1, <2>4
    <3> QED
      BY <2>2, <3>1, <3>2 DEF Found
  <2>5. CASE /\ p.class \in CellClass /\ k # INVENTED_KEYS
             /\ r \in DOMAIN raw /\ raw[r].bad = {<<p.column, p.class>>}
    <3> DEFINE e == <<p.column, p.class>>
    <3>1. k \in InBoth(t) /\ CellsOf(t, k) = {d \in raw[r].bad : <<t, d[1], d[2]>> \notin Neutral}
      <4> HIDE DEF t, k
      <4> QED
        BY <2>2, <2>5, KeysTonight
    <3>2. e[1] = p.column /\ e[2] = p.class /\ x = <<t, k, e[1], e[2]>>
      BY <2>1
    <3>3. <<t, e[1], e[2]>> \notin Neutral
      BY <1>1, <2>2, <3>2
    <3>4. e \in CellsOf(t, k)
      BY <2>5, <3>1, <3>3
    <3> HIDE DEF t, k, e
    <3> QED
      BY <1>2, <2>2, <3>1, <3>2, <3>4
  <2> QED
    BY <2>3, <2>4, <2>5, FaultTonight
<1>4. CASE AsDelivered /\ x \in DeliveredTruth
  <2>1. ~Fixed /\ Off = {} /\ LeftOut = Lost
    BY <1>4, OneFault, CopyTonight DEF LeftOut
  <2>2. /\ DOMAIN legacy \subseteq Row
        /\ \A q \in DOMAIN legacy : q = <<q[1], q[2]>> /\ q[1] \in Table /\ q[2] # INVENTED_KEYS
    BY RealKeys DEF IInv, CopyInv, Types
  <2>3. ASSUME NEW r \in Lost \cap DOMAIN legacy, legacy[r] <= RunAt,
               x = <<r[1], r[2], "", "missing_in_target">>
        PROVE  \E t \in Table : x \in Found(t)
    <3> DEFINE t == r[1]
               k == r[2]
    <3>1. r = <<t, k>> /\ t \in Table /\ r[2] # INVENTED_KEYS
      BY <2>2
    <3>2. r \notin DOMAIN raw
      BY <2>1, <3>1, CopyTonight
    <3> HIDE DEF t, k
    <3>3. k \in Missing(t)
      BY <2>3, <3>1, <3>2, KeysTonight
    <3>4. x = <<t, k, "", "missing_in_target">>
      BY <2>3 DEF t, k
    <3> QED
      BY <3>1, <3>3, <3>4 DEF Found
  <2>4. ASSUME x \in Defects, <<x[1], x[2]>> \in DOMAIN legacy, legacy[<<x[1], x[2]>>] <= RunAt
        PROVE  \E t \in Table : x \in Found(t)
    <3> DEFINE t == x[1]
               k == x[2]
               e == <<x[3], x[4]>>
               r == <<t, k>>
    <3>1. /\ x = <<t, k, e[1], e[2]>> /\ t \in Table /\ e \in Defect
          /\ e[1] = x[3] /\ e[2] = x[4] /\ r \notin Lost /\ r[1] = t /\ r[2] = k
      BY <2>4, DefectsAssumption DEF Defect, CellClass
    <3>2. r \in DOMAIN legacy /\ legacy[r] <= RunAt
      BY <2>4
    <3>3. k # INVENTED_KEYS
      BY <2>2, <3>1, <3>2
    <3> HIDE DEF r
    <3>4. r \in DOMAIN raw /\ raw[r].bad = WrongOf(r)
      BY <2>1, <3>1, <3>2, CopyTonight
    <3>5. e \in WrongOf(r)
      <4>1. <<r[1], r[2], e[1], e[2]>> \in Defects
        BY <2>4, <3>1
      <4> QED
        BY <2>1, <3>1, <4>1 DEF WrongOf
    <3> USE DEF r
    <3>6. k \in InBoth(t) /\ CellsOf(t, k) = {d \in raw[r].bad : <<t, d[1], d[2]>> \notin Neutral}
      <4> HIDE DEF t, k
      <4> QED
        BY <3>1, <3>3, <3>4, KeysTonight
    <3>7. e \in CellsOf(t, k)
      <4>1. <<t, e[1], e[2]>> \notin Neutral
        BY <1>1, <3>1
      <4> QED
        BY <3>4, <3>5, <3>6, <4>1
    <3> HIDE DEF t, k, e
    <3> QED
      BY <1>2, <3>1, <3>6, <3>7
  <2> QED
    BY <1>4, <2>3, <2>4 DEF DeliveredTruth
<1> QED
  BY <1>1, <1>3, <1>4 DEF Truth

\* No two expected discrepancies are of one cell.
LEMMA OnePerCell ==
    ASSUME IInv, pc = "compare", ~late, NEW x \in Expected, NEW y \in Expected,
           x[1] = y[1], x[2] = y[2], x[3] = y[3]
    PROVE  x = y
<1>1. x \in Truth /\ y \in Truth
  BY DEF Expected
<1>2. CASE Fixed
  <2>1. x \in PlantedTruth /\ y \in PlantedTruth
    BY <1>1, <1>2, CopyTonight DEF Truth
  <2> QED
    BY <2>1, OneFault DEF PlantedTruth
<1>3. CASE ~Fixed
  <2>1. x \in DeliveredTruth /\ y \in DeliveredTruth
    BY <1>1, <1>3, OneFault, CopyTonight DEF Truth, PlantedTruth
  <2>2. \A d \in Defects : d[3] # ""
    BY DefectsAssumption, SizeAssumption
  <2>3. ASSUME NEW z \in DeliveredTruth
        PROVE  z \in Defects \/ (z = <<z[1], z[2], "", "missing_in_target">> /\ z[3] = "")
    <3>1. ASSUME z \notin Defects
          PROVE  z = <<z[1], z[2], "", "missing_in_target">> /\ z[3] = ""
      <4>1. PICK r \in Lost \cap DOMAIN legacy : z = <<r[1], r[2], "", "missing_in_target">>
        BY <3>1 DEF DeliveredTruth
      <4>2. z[1] = r[1] /\ z[2] = r[2] /\ z[3] = ""
        BY <4>1
      <4> QED
        BY <4>1, <4>2
    <3> QED
      BY <3>1
  <2>4. CASE x \in Defects /\ y \in Defects
    BY <2>4, DefectsAssumption
  <2>5. CASE x \notin Defects \/ y \notin Defects
    BY <2>1, <2>2, <2>3, <2>5
  <2> QED
    BY <2>4, <2>5
<1> QED
  BY <1>2, <1>3

LEMMA GradeTonight ==
    ASSUME IInv, pc = "compare", ~late
    PROVE  Perfect(Grade)
<1> DEFINE found == UNION {Found(t) : t \in Table}
           cells == {<<d[1], d[2], d[3]>> : d \in Expected}
<1>1. found = Expected
  BY FoundIsExpected, ExpectedIsFound
<1>2. IsFiniteSet(Expected)
  <2> DEFINE f == [t \in Table |-> Found(t)]
             S == {f[t] : t \in Table}
  <2>1. f = [t \in Table |-> f[t]] /\ \A t \in Table : f[t] = Found(t)
    OBVIOUS
  <2>2. found = UNION S
    OBVIOUS
  <2> HIDE DEF f
  <2>3. IsFiniteSet(S)
    BY <2>1, SizeAssumption, ImageIsFinite
  <2>4. \A T \in S : IsFiniteSet(T)
    <3> SUFFICES ASSUME NEW t \in Table PROVE IsFiniteSet(f[t])
      OBVIOUS
    <3> QED
      BY <2>1, FoundIsFinite
  <2> HIDE DEF S
  <2>5. IsFiniteSet(UNION S)
    BY <2>3, <2>4, FS_UNION
  <2> QED
    BY <1>1, <2>2, <2>5
<1>3. Cardinality(cells) = Cardinality(Expected)
  <2> DEFINE f == [d \in Expected |-> <<d[1], d[2], d[3]>>]
  <2>1. f = [d \in Expected |-> f[d]]
    OBVIOUS
  <2>2. \A x, y \in Expected : f[x] = f[y] => x = y
    BY OnePerCell
  <2>3. cells = {f[d] : d \in Expected}
    OBVIOUS
  <2> HIDE DEF f, cells
  <2>4. Cardinality({f[d] : d \in Expected}) = Cardinality(Expected)
    BY <1>2, <2>1, <2>2, ImageOfSameSize
  <2> QED
    BY <2>3, <2>4
<1>4. Grade = [expected |-> Cardinality(cells), detected |-> Cardinality({<<d[1], d[2], d[3]>> : d \in found}),
               hits |-> Cardinality(cells \cap {<<d[1], d[2], d[3]>> : d \in found}),
               correct |-> Cardinality(Expected \cap found)]
  BY DEF Grade
<1>5. {<<d[1], d[2], d[3]>> : d \in found} = cells
  BY <1>1
<1> HIDE DEF cells, found
<1>6. cells \cap cells = cells /\ Expected \cap Expected = Expected
  OBVIOUS
<1>7. Grade = [expected |-> Cardinality(cells), detected |-> Cardinality(cells),
               hits |-> Cardinality(cells), correct |-> Cardinality(Expected)]
  BY <1>1, <1>4, <1>5, <1>6
<1> QED
  BY <1>3, <1>7 DEF Perfect

\* The comparison finds what is wrong in the copy, all of it and nothing else, with its
\* class, on every night on which nothing went wrong outside: whatever the delivered job
\* makes of the rows, and whichever fault of the catalogue is planted.
THEOREM EveryGradeIsPerfect == Spec => GradeIsPerfect
<1>1. ASSUME IInv, ResultsAreListed, [Next]_vars, Judged, ~late
      PROVE  Perfect(Last.grade)
  <2>1. PICK drifted, lenient : Last = Result(drifted, lenient) /\ pc = "compare"
    BY <1>1, Judging
  <2>2. Last.grade = Grade
    BY <2>1 DEF Result
  <2> QED
    BY <1>1, <2>1, <2>2, GradeTonight
<1>2. IInv /\ ResultsAreListed /\ [Next]_vars => [Judged /\ ~late => Perfect(Last.grade)]_vars
  BY <1>1
<1> QED
  BY <1>2, ResultsStay, PTL DEF Spec, GradeIsPerfect

\* Everything keeps its type: no copy is of a later night, at most one fault stands, an
\* invented row is one that stands planted, and no night has two results.
THEOREM TypesHold == Spec => []TypeOK
<1>1. IInv /\ ResultsAreListed => TypeOK
  <2> SUFFICES ASSUME IInv, ResultsAreListed PROVE TypeOK
    OBVIOUS
  <2>1. night \in 0..Nights /\ fixNight \in 1..(Nights + 1) /\ logic \subseteq Logic
    BY DEF IInv, CopyInv, Types
  <2>2. pc \in Pc /\ Cardinality(planted) <= 1 /\ Len(results) <= night
    BY DEF IInv, CopyInv, Types, ResultsAreListed
  <2>3. RunAt \in Nat /\ RunAt <= 2 * Nights
    BY <2>1, Constants DEF RunAt
  <2>4. DOMAIN legacy \subseteq Row /\ \A r \in DOMAIN legacy : legacy[r] \in 0..(2 * Nights + 1)
    <3>1. \A r \in DOMAIN legacy : legacy[r] \in Nat /\ legacy[r] <= RunAt + 1
      BY DEF IInv, CopyInv, Types, Times
    <3> QED
      BY <2>3, <3>1, Constants DEF IInv, CopyInv, Types
  <2>5. \A r \in DOMAIN raw : /\ r \in Table \X (Key \cup {INVENTED_KEYS})
                              /\ raw[r].at \in 0..(2 * Nights) /\ raw[r].bad \subseteq Defect
    <3> SUFFICES ASSUME NEW r \in DOMAIN raw
                 PROVE  /\ r \in Table \X (Key \cup {INVENTED_KEYS})
                        /\ raw[r].at \in 0..(2 * Nights) /\ raw[r].bad \subseteq Defect
      OBVIOUS
    <3>1. raw[r].at \in Nat /\ raw[r].at <= RunAt /\ raw[r].bad \subseteq Defect
      BY DEF IInv, CopyInv, Types, Times, Stored
    <3>2. r \in Table \X (Key \cup {INVENTED_KEYS})
      BY DEF IInv, CopyInv, Types
    <3> QED
      BY <2>3, <3>1, <3>2, Constants
  <2>6. \A r \in DOMAIN marts : /\ r \in Table \X (Key \cup {INVENTED_KEYS})
                                /\ marts[r].at \in 0..(2 * Nights) /\ marts[r].bad \subseteq Defect
    BY DEF IInv, MartsAreRaw
  <2>7. \A t \in Table : watermark[t] \in 0..RunAt
    <3>1. \A t \in Table : watermark[t] \in Nat /\ watermark[t] <= RunAt
      BY DEF IInv, CopyInv, Types, Times
    <3> QED
      BY <2>3, <3>1
  <2>8. \A r \in DOMAIN raw : r[2] = INVENTED_KEYS => \E p \in planted : p.key = r[2]
    <3>1. \A r \in DOMAIN raw : r[2] = INVENTED_KEYS => r \in Off
      BY DEF IInv, CopyInv, CopyIsOfRows
    <3>2. \A r \in Off : \E p \in planted : p.key = r[2]
      BY DEF Off
    <3> QED
      BY <3>1, <3>2
  <2> QED
    BY <2>1, <2>2, <2>4, <2>5, <2>6, <2>7, <2>8 DEF TypeOK, Pc
<1> QED
  BY <1>1, ResultsStay, PTL

-----------------------------------------------------------------------------
(* The streak.                                                             *)

\* How far back from night n one may have to go to a night that is not clean, or to none.
Back(n) == {d \in 0..n : d = n \/ ~Clean(results[n - d])}

\* The streak is what it is defined by.
LEMMA StreakGoesOn ==
    \A n \in Nat : Streak[n] = IF n = 0 \/ ~Clean(results[n]) THEN 0 ELSE Streak[n - 1] + 1
<1> DEFINE first(n) == CHOOSE d \in Back(n) : \A e \in Back(n) : d <= e
           g == [n \in Nat |-> first(n)]
<1>1. \A n \in Nat : first(n) \in Back(n) /\ \A e \in Back(n) : first(n) <= e
  <2> SUFFICES ASSUME NEW n \in Nat
               PROVE  \E d \in Back(n) : \A e \in Back(n) : d <= e
    OBVIOUS
  <2>1. Back(n) \subseteq Nat /\ n \in Back(n)
    BY DEF Back
  <2> QED
    BY <2>1, Least
<1>2. \A n \in Nat : g[n] = IF n = 0 \/ ~Clean(results[n]) THEN 0 ELSE g[n - 1] + 1
  <2> SUFFICES ASSUME NEW n \in Nat
               PROVE  first(n) = IF n = 0 \/ ~Clean(results[n]) THEN 0 ELSE first(n - 1) + 1
    <3>1. \A n \in Nat : g[n] = first(n) /\ (n # 0 => g[n - 1] = first(n - 1))
      OBVIOUS
    <3> HIDE DEF g, first
    <3>2. ASSUME NEW k \in Nat PROVE g[k] = IF k = 0 \/ ~Clean(results[k]) THEN 0 ELSE g[k - 1] + 1
      BY <3>1
    <3> QED
      BY <3>2
  <2>1. first(n) \in Back(n) /\ \A e \in Back(n) : first(n) <= e
    BY <1>1
  <2> DEFINE fn == first(n)
  <2>2. CASE n = 0 \/ ~Clean(results[n])
    <3>1. 0 \in Back(n)
      BY <2>2 DEF Back
    <3>2. fn \in Nat /\ fn <= 0
      BY <2>1, <3>1 DEF Back
    <3> QED
      BY <2>2, <3>2
  <2>3. CASE ~(n = 0 \/ ~Clean(results[n]))
    <3> DEFINE m == n - 1
               fm == first(m)
    <3>1. m \in Nat
      BY <2>3
    <3>2. fm \in Back(m) /\ \A e \in Back(m) : fm <= e
      BY <1>1, <3>1
    <3>3. \A d \in Nat : d + 1 \in Back(n) <=> d \in Back(m)
      <4> TAKE d \in Nat
      <4>1. n - (d + 1) = m - d
        BY <3>1
      <4> QED
        BY <3>1, <4>1 DEF Back
    <3>4. 0 \notin Back(n)
      BY <2>3 DEF Back
    <3>5. fn \in Nat /\ fn - 1 \in Nat /\ fm \in Nat
      BY <2>1, <3>2, <3>4 DEF Back
    <3> HIDE DEF fn, fm
    <3>6. fm + 1 \in Back(n) /\ fn - 1 \in Back(m)
      <4>1. (fn - 1) + 1 = fn
        BY <3>5
      <4> QED
        BY <2>1, <3>2, <3>3, <3>5, <4>1 DEF fn
    <3>7. fn <= fm + 1 /\ fm <= fn - 1
      BY <2>1, <3>2, <3>6 DEF fn
    <3>8. fn = fm + 1
      BY <3>5, <3>7
    <3> QED
      BY <2>3, <3>8 DEF fn, fm
  <2> QED
    BY <2>2, <2>3
<1>3. g = [n \in Nat |-> IF n = 0 \/ ~Clean(results[n]) THEN 0 ELSE g[n - 1] + 1]
  <2> HIDE DEF first
  <2>1. g = [n \in Nat |-> g[n]]
    OBVIOUS
  <2> HIDE DEF g
  <2> QED
    BY <1>2, <2>1
<1> HIDE DEF g
<1>4. Streak = [n \in Nat |-> IF n = 0 \/ ~Clean(results[n]) THEN 0 ELSE Streak[n - 1] + 1]
  BY <1>3 DEF Streak
<1> QED
  BY <1>4

\* It says how many of the latest nights are clean, and that the one before is not.
LEMMA StreakSays ==
    ASSUME NEW n \in Nat
    PROVE  /\ Streak[n] \in 0..n
           /\ \A o \in (n - Streak[n] + 1)..n : Clean(results[o])
           /\ Streak[n] < n => ~Clean(results[n - Streak[n]])
<1> DEFINE Right(k) == /\ Streak[k] \in 0..k
                       /\ \A o \in (k - Streak[k] + 1)..k : Clean(results[o])
                       /\ Streak[k] < k => ~Clean(results[k - Streak[k]])
           T == {k \in Nat : Right(k)}
<1>1. 0 \in T
  <2>1. Streak[0] = 0
    BY StreakGoesOn
  <2> QED
    BY <2>1
<1>2. ASSUME NEW k \in Nat, k \in T PROVE k + 1 \in T
  <2> DEFINE m == k + 1
  <2>1. m \in Nat /\ m # 0 /\ m - 1 = k /\ Right(k)
    BY <1>2
  <2>2. Streak[m] = IF ~Clean(results[m]) THEN 0 ELSE Streak[k] + 1
    BY <2>1, StreakGoesOn
  <2>3. CASE ~Clean(results[m])
    <3>1. Streak[m] = 0
      BY <2>2, <2>3
    <3>2. m - 0 = m
      BY <2>1
    <3> HIDE DEF m
    <3> QED
      BY <2>1, <2>3, <3>1, <3>2
  <2>4. CASE Clean(results[m])
    <3>1. Streak[m] = Streak[k] + 1 /\ Streak[k] \in 0..k /\ m = k + 1
      BY <2>1, <2>2, <2>4
    <3> HIDE DEF m
    <3>2. m - Streak[m] = k - Streak[k] /\ m - Streak[m] + 1 = k - Streak[k] + 1
      BY <3>1
    <3>3. Streak[m] \in 0..m /\ (Streak[m] < m => Streak[k] < k)
      BY <3>1
    <3>4. \A o \in (m - Streak[m] + 1)..m : o = m \/ o \in (k - Streak[k] + 1)..k
      BY <3>1
    <3>5. \A o \in (m - Streak[m] + 1)..m : Clean(results[o])
      BY <2>1, <2>4, <3>4
    <3>6. Streak[m] < m => ~Clean(results[m - Streak[m]])
      BY <2>1, <3>2, <3>3
    <3>7. Right(m)
      BY <3>3, <3>5, <3>6
    <3> QED
      BY <2>1, <3>7 DEF m
  <2> QED
    BY <2>3, <2>4
<1>3. Nat \subseteq T
  <2> HIDE DEF T
  <2> QED
    BY <1>1, <1>2, EveryNumber
<1> QED
  BY <1>3

\* So many nights in a row are clean exactly if the streak is at least that long.
LEMMA StreakCounts ==
    ASSUME NEW n \in Nat, NEW k \in Nat \ {0}
    PROVE  Streak[n] >= k <=> n >= k /\ \A o \in (n - k + 1)..n : Clean(results[o])
<1> DEFINE s == Streak[n]
<1>1. /\ s \in 0..n
      /\ \A o \in (n - s + 1)..n : Clean(results[o])
      /\ s < n => ~Clean(results[n - s])
  BY StreakSays
<1> HIDE DEF s
<1>2. ASSUME s >= k PROVE n >= k /\ \A o \in (n - k + 1)..n : Clean(results[o])
  <2>1. \A o \in (n - k + 1)..n : o \in (n - s + 1)..n
    BY <1>1, <1>2
  <2> QED
    BY <1>1, <1>2, <2>1
<1>3. ASSUME n >= k, \A o \in (n - k + 1)..n : Clean(results[o]) PROVE s >= k
  <2> SUFFICES ASSUME s < k PROVE FALSE
    BY <1>1
  <2>1. n - s \in (n - k + 1)..n /\ s < n
    BY <1>1, <1>3
  <2> QED
    BY <1>1, <1>3, <2>1
<1> QED
  BY <1>2, <1>3 DEF s

\* It grows by one night at a time: longer now, it has been as long on a night before.
LEMMA StreakPasses ==
    ASSUME NEW n \in Nat, NEW k \in Nat \ {0}, Streak[n] >= k
    PROVE  \E m \in 1..n : Streak[m] = k
<1> DEFINE T == {m \in 0..n : Streak[m] >= k}
<1>1. T \subseteq Nat /\ n \in T
  OBVIOUS
<1>2. PICK m \in T : \A o \in T : m <= o
  <2> HIDE DEF T
  <2> QED
    BY <1>1, Least
<1>3. m \in Nat /\ m <= n /\ Streak[m] >= k
  OBVIOUS
<1>4. m # 0
  <2>1. Streak[0] = 0
    BY StreakGoesOn
  <2> QED
    BY <1>3, <2>1
<1>5. Streak[m - 1] < k /\ Streak[m - 1] \in Nat
  <2>1. m - 1 \in Nat /\ m - 1 \in 0..n /\ m - 1 \notin T
    BY <1>2, <1>3, <1>4
  <2>2. Streak[m - 1] \in 0..(m - 1)
    BY <2>1, StreakSays
  <2>3. ~(Streak[m - 1] >= k)
    BY <2>1
  <2> QED
    BY <2>1, <2>2, <2>3
<1>6. Streak[m] = 0 \/ Streak[m] = Streak[m - 1] + 1
  BY <1>3, <1>4, StreakGoesOn
<1>7. Streak[m] = k
  BY <1>3, <1>5, <1>6
<1> QED
  BY <1>3, <1>4, <1>7

-----------------------------------------------------------------------------
(* What a night's result says.                                             *)

\* The rows that nobody writes again stay, and no fault is a mere rounding.
DataStays ==
    /\ \A r \in History : r \in DOMAIN legacy /\ legacy[r] = 0
    /\ \A p \in planted : p.class # "rounding"

\* While the job runs as it was delivered, a row it loses is missing, whatever commits late
\* or stops: no such night is clean.
LEMMA DeliveredFails ==
    ASSUME IInv, DataStays, AsDelivered
    PROVE  \E t \in Table : ~TablePasses(t)
<1>1. PICK r \in History : r \in Lost
  BY DefectsAssumption
<1> DEFINE t == r[1]
           k == r[2]
           d == <<t, k, "", "missing_in_target">>
<1>2. r = <<t, k>> /\ t \in Table /\ k \in Key /\ k # INVENTED_KEYS /\ r \in DOMAIN legacy /\ legacy[r] = 0
  <2>1. r \in Row
    BY Constants
  <2> QED
    BY <2>1, RealKeys DEF DataStays
<1>3. r \notin DOMAIN raw
  <2>1. ~Fixed
    <3>1. night \in Nat /\ fixNight \in Nat
      BY Constants DEF IInv, CopyInv, Types
    <3> QED
      BY <3>1 DEF AsDelivered, Fixed
  <2>2. r \in LeftOut
    BY <1>1, <2>1 DEF LeftOut
  <2> QED
    BY <1>2, <2>2 DEF IInv, CopyInv, CopyIsOfRows
<1>4. watermark[t] \in Nat
  BY <1>2 DEF IInv, CopyInv, Types
<1> HIDE DEF t, k
<1>5. k \in Missing(t)
  BY <1>2, <1>3, <1>4 DEF Missing, AsOf, Held, InRaw
<1>6. d \in Found(t)
  BY <1>5 DEF Found
<1>7. Limit[d[4]] = 0
  BY SettingsAssumption DEF RowClass
<1> HIDE DEF d
<1>8. OverLimit(t)
  BY <1>2, <1>6, <1>7, NoneOverLimit
<1> QED
  BY <1>2, <1>8 DEF TablePasses

\* A fault that is planted leaves no report with a mere rounding: a report that passes on
\* such a night does not differ.
LEMMA PlantedIsNoRounding ==
    ASSUME IInv, DataStays, pc = "compare", planted # {}, NEW r \in Report, OnlyRounded(r)
    PROVE  DifferingColumns(r) = {}
<1>1. SUFFICES ASSUME NEW c \in DifferingColumns(r) PROVE FALSE
  OBVIOUS
<1>2. /\ c \in ReportColumn /\ (DiffersUpstream(r, c) \/ <<r, c>> \in logic)
      /\ <<r, c>> \notin logic
      /\ \A d \in Depends[r][c] : /\ RowsOf(frozen[r], d[1]) = MartRowsOf(d[1])
                                  /\ WrongIn(d[1], d[2]) \subseteq {"rounding"}
  BY DEF OnlyRounded, DifferingColumns
<1>3. PICK d \in Depends[r][c] : WrongIn(d[1], d[2]) # {}
  BY <1>2 DEF DiffersUpstream
<1>4. "rounding" \in WrongIn(d[1], d[2])
  BY <1>2, <1>3
<1>5. PICK x \in DOMAIN raw : <<d[2], "rounding">> \in raw[x].bad
  BY <1>4 DEF WrongIn, IInv, MartsAreRaw
<1>6. Fixed
  BY DEF IInv, CopyInv, FaultsAreRepaired
<1>7. x \in Off
  BY <1>5, <1>6 DEF IInv, CopyInv, CopyIsOfRows, WrongOf
<1>8. PICK p \in planted : x = <<p.table, p.key>>
  BY <1>7 DEF Off
<1>9. p.class \in CellClass /\ raw[x].bad = {<<p.column, p.class>>}
  <2>1. p.class \in CellClass \/ p.class \in RowClass
    BY OnCell DEF IInv, CellClass
  <2> QED
    BY <1>5, <1>8, <2>1 DEF IInv, CopyInv, FaultStands, RowClass
<1> QED
  BY <1>5, <1>9 DEF DataStays

LEMMA ResultTonight ==
    ASSUME IInv, DataStays, pc = "compare", NEW drifted, NEW lenient,
           lenient \subseteq {r \in Report : OnlyRounded(r)}
    PROVE  LET result == Result(drifted, lenient)
           IN  /\ result.night = night
               /\ result.failing \subseteq Table \cup Report /\ result.unexplained \subseteq Report
               /\ result.delivered => ~Clean(result)
               /\ result.failing = {} /\ result.planted > 0 => result.unexplained = {}
               /\ result.unexplained # {} => logic # {} \/ late
               /\ ~late => Perfect(result.grade)
<1> DEFINE result == Result(drifted, lenient)
<1>1. /\ result.night = night /\ result.delivered = AsDelivered
      /\ result.planted = Cardinality(planted) /\ result.grade = Grade
      /\ result.failing = {p \in Table \cup Report : ~Passes(p, drifted, lenient)}
      /\ result.unexplained = {r \in Report \ drifted : ~Explained(r)}
  BY DEF Result
<1> HIDE DEF result
<1>2. ASSUME result.delivered PROVE ~Clean(result)
  <2>1. PICK t \in Table : ~TablePasses(t)
    BY <1>1, <1>2, DeliveredFails
  <2>2. t \in result.failing
    BY <1>1, <2>1 DEF Passes
  <2> QED
    BY <2>2 DEF Clean
<1>3. ASSUME result.failing = {}, result.planted > 0 PROVE result.unexplained = {}
  <2>1. planted # {}
    BY <1>1, <1>3, FS_EmptySet
  <2> SUFFICES ASSUME NEW r \in Report PROVE Explained(r)
    BY <1>1
  <2>2. Passes(r, drifted, lenient) /\ r \notin Table
    BY <1>1, <1>3, SizeAssumption
  <2>3. DifferingColumns(r) = {}
    BY <2>1, <2>2, PlantedIsNoRounding DEF Passes
  <2> QED
    BY <2>3 DEF Explained
<1>4. ASSUME result.unexplained # {}, logic = {}, ~late PROVE FALSE
  <2>1. PICK r \in Report : ~Explained(r)
    BY <1>1, <1>4
  <2> QED
    BY <1>4, <2>1, ExplainedTonight
<1>5. ASSUME ~late PROVE Perfect(result.grade)
  BY <1>1, <1>5, GradeTonight
<1> QED
  BY <1>1, <1>2, <1>3, <1>4, <1>5 DEF result

-----------------------------------------------------------------------------
(* The recommendation.                                                     *)

\* k nights in a row are clean, up to night n.
InARow(n, k) == n >= k /\ \A o \in (n - k + 1)..n : Clean(results[o])

\* What a decision says of the nights.
TrueOfNights(decision) ==
    IF decision.recommended
    THEN /\ decision.night \in DOMAIN results /\ InARow(decision.night, Required)
         /\ \A o \in DOMAIN results : o < decision.night => ~InARow(o, Required)
    ELSE /\ decision.streak \in Nat /\ decision.streak < Required
         /\ InARow(Len(results), decision.streak)
         /\ \A o \in DOMAIN results : ~InARow(o, Required)

LEMMA DecidedIsTrue ==
    ASSUME NEW S, results \in Seq(S)
    PROVE  TrueOfNights(Decided)
<1> DEFINE completing == {n \in DOMAIN results : Streak[n] = Required}
           last == Len(results)
<1>1. Required \in Nat /\ Required > 0 /\ last \in Nat /\ DOMAIN results = 1..last
  BY ParallelAssumption
<1>2. \A o \in DOMAIN results : o \in Nat /\ (InARow(o, Required) <=> Streak[o] >= Required)
  <2> TAKE o \in DOMAIN results
  <2>1. o \in Nat /\ Required \in Nat \ {0}
    BY <1>1
  <2>2. Streak[o] >= Required
        <=> o >= Required /\ \A p \in (o - Required + 1)..o : Clean(results[p])
    BY <2>1, StreakCounts
  <2> QED
    BY <2>1, <2>2 DEF InARow
<1>3. ASSUME NEW o \in DOMAIN results, InARow(o, Required)
      PROVE  \E m \in completing : m <= o
  <2>1. Streak[o] >= Required /\ o \in Nat
    BY <1>2, <1>3
  <2>2. PICK m \in 1..o : Streak[m] = Required
    BY <1>1, <2>1, StreakPasses
  <2>3. m \in DOMAIN results /\ m <= o
    BY <1>1, <2>1, <2>2
  <2> QED
    BY <2>2, <2>3
<1>4. CASE completing = {}
  <2>1. Decided = [recommended |-> FALSE, night |-> 0, streak |-> Streak[last]]
    BY <1>4 DEF Decided
  <2>2. Streak[last] \in 0..last /\ \A o \in (last - Streak[last] + 1)..last : Clean(results[o])
    BY <1>1, StreakSays
  <2>3. Streak[last] < Required
    <3> SUFFICES ASSUME Streak[last] >= Required PROVE FALSE
      BY <1>1, <2>2
    <3>1. last # 0
      BY <1>1, <2>2
    <3>2. last \in DOMAIN results
      BY <1>1, <3>1
    <3> QED
      BY <1>2, <1>3, <1>4, <3>2
  <2>4. Decided.recommended = FALSE /\ Decided.streak = Streak[last]
    BY <2>1
  <2>5. InARow(last, Decided.streak)
    BY <1>1, <2>2, <2>4 DEF InARow
  <2>6. \A o \in DOMAIN results : ~InARow(o, Required)
    BY <1>3, <1>4
  <2> HIDE DEF completing
  <2> QED
    BY <1>1, <2>2, <2>3, <2>4, <2>5, <2>6 DEF TrueOfNights
<1>5. CASE completing # {}
  <2> DEFINE first == CHOOSE n \in completing : \A o \in completing : n <= o
  <2>1. \E n \in completing : \A o \in completing : n <= o
    <3>1. completing \subseteq Nat
      BY <1>1
    <3> HIDE DEF completing
    <3> QED
      BY <1>5, <3>1, Least
  <2>2. first \in completing /\ \A o \in completing : first <= o
    BY <2>1
  <2>3. Decided = [recommended |-> TRUE, streak |-> Required, night |-> first]
    BY <1>5 DEF Decided
  <2> HIDE DEF first
  <2>4. Decided.recommended /\ Decided.night = first
    BY <2>3
  <2>5. first \in DOMAIN results /\ Streak[first] = Required
    BY <2>2
  <2>6. InARow(first, Required)
    BY <1>1, <1>2, <2>5
  <2>7. ASSUME NEW o \in DOMAIN results, o < first PROVE ~InARow(o, Required)
    <3> SUFFICES ASSUME InARow(o, Required) PROVE FALSE
      OBVIOUS
    <3>1. PICK m \in completing : m <= o
      BY <1>3
    <3>2. first <= m /\ m \in Nat /\ o \in Nat /\ first \in Nat
      BY <1>1, <2>2, <2>5, <3>1
    <3> QED
      BY <2>7, <3>1, <3>2
  <2> QED
    BY <2>4, <2>5, <2>6, <2>7 DEF TrueOfNights
<1> QED
  BY <1>4, <1>5

-----------------------------------------------------------------------------
(* What the results say is kept.                                           *)

ResultIsTrue(result, n) ==
    /\ result.night = n
    /\ result.failing \subseteq Table \cup Report /\ result.unexplained \subseteq Report
    /\ result.delivered => ~Clean(result)
    /\ result.failing = {} /\ result.planted > 0 => result.unexplained = {}
    /\ result.unexplained # {} => logic # {} \/ mishaps > 0
    /\ mishaps = 0 => Perfect(result.grade)

EveryNightIsListed ==
    /\ \E S : results \in Seq(S)
    /\ pc \in Loaded \cup Unloaded => Len(results) = night - 1
    /\ pc \in {"day", "done"} => Len(results) = night

MishapsAreCounted == mishaps \in Nat /\ (late => mishaps > 0)

ResultsAreTrue ==
    /\ DataStays /\ EveryNightIsListed /\ MishapsAreCounted
    /\ \A n \in DOMAIN results : ResultIsTrue(results[n], n)
    /\ pc = "done" => TrueOfNights(cutover[1])

LEMMA InitResults == Init => ResultsAreTrue
<1> SUFFICES ASSUME Init PROVE ResultsAreTrue
  OBVIOUS
<1>1. /\ results = <<>> /\ night = 0 /\ pc = "day" /\ late = FALSE /\ mishaps = 0 /\ planted = {}
      /\ legacy = [r \in History \cup Changing |-> 0]
  BY DEF Init
<1>2. results \in Seq({}) /\ DOMAIN results = {}
  BY <1>1
<1> QED
  BY <1>1, <1>2 DEF ResultsAreTrue, DataStays, EveryNightIsListed, MishapsAreCounted, Loaded, Unloaded

\* A set of pairs counts as a mishap unless it is empty.
LEMMA MishapsCount ==
    ASSUME MishapsAreCounted, NEW S, IsFiniteSet(S), mishaps' = mishaps + Cardinality(S),
           late' = (late \/ S # {})
    PROVE  MishapsAreCounted' /\ (mishaps' = 0 => mishaps = 0 /\ ~late) /\ (mishaps > 0 => mishaps' > 0)
           /\ (late => mishaps' > 0)
<1>1. Cardinality(S) \in Nat /\ (Cardinality(S) = 0 <=> S = {})
  BY FS_CardinalityType, FS_EmptySet
<1>2. late' => late \/ S # {}
  OBVIOUS
<1>3. mishaps \in Nat /\ mishaps' \in Nat /\ mishaps <= mishaps' /\ (S # {} => mishaps' > 0)
  BY <1>1 DEF MishapsAreCounted
<1>4. late => mishaps > 0
  BY DEF MishapsAreCounted
<1>5. (mishaps > 0 => mishaps' > 0) /\ (mishaps' = 0 => mishaps = 0 /\ ~(mishaps > 0))
  BY <1>3
<1>6. MishapsAreCounted'
  <2>1. late' => mishaps' > 0
    BY <1>2, <1>3, <1>4, <1>5, Zenon
  <2> QED
    BY <1>3, <2>1 DEF MishapsAreCounted
<1> QED
  BY <1>4, <1>5, <1>6, Zenon

\* Nothing that happens to Postgres touches the rows that nobody writes again.
LEMMA DataStaysOn ==
    ASSUME IInv, DataStays, [Next]_vars
    PROVE  DataStays'
<1>1. ASSUME NEW rows, NEW at, legacy' = Written(rows, at), rows \subseteq Changing \cup Coming
      PROVE  \A r \in History : r \in DOMAIN legacy' /\ legacy'[r] = 0
  <2> SUFFICES ASSUME NEW r \in History PROVE r \in DOMAIN legacy' /\ legacy'[r] = 0
    OBVIOUS
  <2>1. r \notin rows /\ r \in DOMAIN legacy /\ legacy[r] = 0
    BY <1>1, DefectsAssumption DEF DataStays
  <2> QED
    BY <1>1, <2>1 DEF Written, Over
<1>2. \A r \in History : r \in DOMAIN legacy' /\ legacy'[r] = 0
  <2>1. CASE Arrive
    <3>1. PICK new \in AtMostOne(Coming \ DOMAIN legacy), changed \in AtMostOne(Changing) :
                 legacy' = Written(new \cup changed, 2 * (night + 1))
      BY <2>1 DEF Arrive
    <3>2. new \cup changed \subseteq Changing \cup Coming
      BY SmallSets
    <3> QED
      BY <1>1, <3>1, <3>2
  <2>2. CASE WriteOn
    <3>1. PICK new \in AtMostOne(Coming \ DOMAIN legacy) : legacy' = Written(new, RunAt + 1)
      BY <2>2 DEF WriteOn
    <3>2. new \subseteq Changing \cup Coming
      BY SmallSets
    <3> QED
      BY <1>1, <3>1, <3>2
  <2>3. CASE CommitLate
    <3>1. PICK r \in (Coming \ DOMAIN legacy) \cup {r \in Changing : legacy[r] < RunAt} :
                 legacy' = Written({r}, RunAt)
      BY <2>3 DEF CommitLate
    <3> QED
      BY <1>1, <3>1
  <2>4. CASE UNCHANGED legacy
    BY <2>4 DEF DataStays
  <2> QED
    BY <2>1, <2>2, <2>3, <2>4
       DEF Next, vars, Repair, TakeSnapshot, CommitLeader, FreezeReport, Load, Backfill, Plant, Build,
           Compare, CompareRaises, Finish
<1>3. \A p \in planted' : p.class # "rounding"
  <2>1. CASE Plant
    <3>1. CASE planted' = planted
      BY <3>1 DEF DataStays
    <3>2. CASE planted' # planted
      <4>1. PICK f \in FaultsOf(night) : \E k \in Targets(f) :
              planted' = {[table |-> f.table, key |-> k, column |-> f.column, class |-> f.class]}
        BY <2>1, <3>2 DEF Plant
      <4>2. f.class # "rounding"
        BY <4>1, CatalogueAssumption DEF FaultsOf
      <4> QED
        BY <4>1, <4>2
    <3> QED
      BY <3>1, <3>2
  <2>2. CASE planted' \subseteq planted
    BY <2>2 DEF DataStays
  <2> QED
    BY <2>1, <2>2
       DEF Next, vars, Arrive, Repair, TakeSnapshot, CommitLeader, FreezeReport, Load, Backfill, WriteOn,
           Build, Compare, CompareRaises, CommitLate, Finish
<1> QED
  BY <1>2, <1>3 DEF DataStays

\* A result goes on being true while nothing is judged.
LEMMA ResultsStayTrue ==
    ASSUME ResultsAreTrue, results' = results, logic' = logic, mishaps > 0 => mishaps' > 0,
           mishaps' = 0 => mishaps = 0
    PROVE  \A n \in DOMAIN results' : ResultIsTrue(results[n], n)'
BY DEF ResultsAreTrue, ResultIsTrue, Clean, Perfect

\* Stopped copies, drifts and late commits are counted as they happen.
LEMMA Counting ==
    ASSUME MishapsAreCounted, [Next]_vars
    PROVE  /\ MishapsAreCounted' /\ (mishaps' = 0 => mishaps = 0 /\ ~late)
           /\ (mishaps > 0 => mishaps' > 0) /\ (pc = "compare" /\ late => mishaps' > 0)
<1>1. CASE Load
  <2>1. PICK skip \in AtMostOne(IF mishaps < MaxMishaps THEN Stoppable ELSE {}) :
          mishaps' = mishaps + Cardinality(skip) /\ late' = (late \/ skip # {})
    BY <1>1 DEF Load
  <2>2. IsFiniteSet(skip)
    BY FS_EmptySet, FS_Singleton DEF AtMostOne
  <2> QED
    BY <2>1, <2>2, MishapsCount
<1>2. CASE Compare \/ CompareRaises
  <2>1. \E drifted \in DriftedTonight : mishaps' = mishaps + Cardinality(drifted)
                                        /\ (late' = (late \/ drifted # {}) \/ late' = late)
    BY <1>2 DEF Compare, CompareRaises
  <2>2. PICK drifted \in DriftedTonight : mishaps' = mishaps + Cardinality(drifted)
                                        /\ (late' = (late \/ drifted # {}) \/ late' = late)
    BY <2>1
  <2>3. IsFiniteSet(drifted)
    <3>1. IsFiniteSet(Table \cup Report)
      BY SizeAssumption, FS_Union
    <3>2. drifted \subseteq Table \cup Report
      BY ParallelAssumption DEF DriftedTonight
    <3> QED
      BY <3>1, <3>2, FS_Subset
  <2>4. CASE late' = (late \/ drifted # {})
    BY <2>2, <2>3, <2>4, MishapsCount
  <2>5. CASE late' = late
    <3>1. Cardinality(drifted) \in Nat
      BY <2>3, FS_CardinalityType
    <3>2. mishaps' \in Nat /\ mishaps \in Nat /\ mishaps <= mishaps'
      BY <2>2, <3>1 DEF MishapsAreCounted
    <3>3. (mishaps > 0 => mishaps' > 0) /\ (mishaps' = 0 => mishaps = 0 /\ ~(mishaps > 0))
      BY <3>2
    <3> QED
      BY <2>5, <3>2, <3>3 DEF MishapsAreCounted
  <2> QED
    BY <2>2, <2>4, <2>5
<1>3. CASE CommitLate
  <2>1. mishaps' = mishaps + 1 /\ late' = TRUE
    BY <1>3 DEF CommitLate
  <2> QED
    BY <2>1 DEF MishapsAreCounted
<1>4. CASE mishaps' = mishaps /\ (late' = late \/ late' = FALSE)
  <2>1. mishaps > 0 => mishaps # 0
    BY DEF MishapsAreCounted
  <2> QED
    BY <1>4, <2>1 DEF MishapsAreCounted
<1>5. CASE Arrive \/ Repair \/ TakeSnapshot \/ CommitLeader \/ (\E r \in Report : FreezeReport(r)) \/ Backfill
           \/ Plant \/ WriteOn \/ Build \/ Finish \/ UNCHANGED vars
  <2>1. mishaps' = mishaps /\ (late' = late \/ late' = FALSE)
    BY <1>5 DEF Arrive, Repair, TakeSnapshot, CommitLeader, FreezeReport, Backfill, Plant, WriteOn, Build,
                Finish, vars, outside
  <2> QED
    BY <1>4, <2>1
<1> QED
  BY <1>1, <1>2, <1>3, <1>5 DEF Next

\* The comparison adds a result that is true, of the night after the last one's.
LEMMA CompareResults ==
    ASSUME IInv, ResultsAreTrue, Compare, [Next]_vars
    PROVE  ResultsAreTrue'
<1>1. PICK drifted \in DriftedTonight, lenient \in SUBSET {r \in Report : OnlyRounded(r)} :
        results' = Append(results, Result(drifted, lenient))
  BY DEF Compare
<1> DEFINE R == Result(drifted, lenient)
<1>2. /\ pc = "compare" /\ pc' = "day" /\ night' = night /\ logic' = logic /\ night \in Nat
      /\ UNCHANGED <<legacy, planted>>
  BY Constants DEF Compare, fixed, IInv, CopyInv, Types
<1>3. /\ R.night = night
      /\ R.failing \subseteq Table \cup Report /\ R.unexplained \subseteq Report
      /\ R.delivered => ~Clean(R)
      /\ R.failing = {} /\ R.planted > 0 => R.unexplained = {}
      /\ R.unexplained # {} => logic # {} \/ late
      /\ ~late => Perfect(R.grade)
  BY <1>2, ResultTonight DEF ResultsAreTrue
<1> HIDE DEF R
<1>4. PICK S : results \in Seq(S)
  BY DEF ResultsAreTrue, EveryNightIsListed
<1>5. /\ results' = Append(results, R) /\ results' \in Seq(S \cup {R})
      /\ Len(results) = night - 1 /\ Len(results') = night
      /\ DOMAIN results' = 1..night /\ DOMAIN results = 1..(night - 1)
      /\ results'[night] = R /\ \A n \in DOMAIN results : results'[n] = results[n]
  <2>1. results' = Append(results, R)
    BY <1>1 DEF R
  <2>2. Len(results) = night - 1
    BY <1>2 DEF ResultsAreTrue, EveryNightIsListed, Loaded
  <2>3. Len(results) \in Nat
    BY <1>4
  <2> QED
    BY <1>2, <1>4, <2>1, <2>2, <2>3
<1>6. MishapsAreCounted' /\ (mishaps > 0 => mishaps' > 0) /\ (mishaps' = 0 => mishaps = 0 /\ ~late)
      /\ (late => mishaps' > 0)
  BY <1>2, Counting DEF ResultsAreTrue
<1>7. ASSUME NEW n \in DOMAIN results' PROVE ResultIsTrue(results[n], n)'
  <2>1. CASE n = night
    <3>1. results'[n] = R
      BY <1>5, <2>1
    <3> QED
      BY <1>2, <1>3, <1>6, <2>1, <3>1 DEF ResultIsTrue, Clean, Perfect
  <2>2. CASE n # night
    <3>1. n \in DOMAIN results
      BY <1>2, <1>5, <2>2
    <3>2. ResultIsTrue(results[n], n) /\ results'[n] = results[n]
      BY <1>5, <3>1 DEF ResultsAreTrue
    <3> QED
      BY <1>2, <1>6, <3>2 DEF ResultIsTrue, Clean, Perfect
  <2> QED
    BY <2>1, <2>2
<1>8. DataStays'
  BY <1>2 DEF ResultsAreTrue, DataStays
<1>9. EveryNightIsListed'
  BY <1>2, <1>5 DEF EveryNightIsListed, Loaded, Unloaded
<1> QED
  BY <1>2, <1>6, <1>7, <1>8, <1>9 DEF ResultsAreTrue

LEMMA NextResults ==
    ASSUME IInv, ResultsAreTrue, [Next]_vars
    PROVE  ResultsAreTrue'
<1>1. CASE Compare
  BY <1>1, CompareResults
<1>2. CASE ~Compare
  <2>1. results' = results /\ logic' = logic
    BY <1>2 DEF Next, vars, Arrive, Repair, TakeSnapshot, CommitLeader, FreezeReport, Load, Backfill, Plant,
                WriteOn, Build, CompareRaises, Finish, CommitLate, judged, fixed
  <2>2. PICK S : results \in Seq(S)
    BY DEF ResultsAreTrue, EveryNightIsListed
  <2>3. DataStays' /\ MishapsAreCounted'
    BY DataStaysOn, Counting DEF ResultsAreTrue
  <2>4. \A n \in DOMAIN results' : ResultIsTrue(results[n], n)'
    BY <2>1, Counting, ResultsStayTrue DEF ResultsAreTrue
  <2>5. EveryNightIsListed'
    <3>1. night \in Nat
      BY Constants DEF IInv, CopyInv, Types
    <3>2. CASE Arrive
      <4>1. pc = "day" /\ pc' = "repair" /\ night' = night + 1
        BY <3>2 DEF Arrive
      <4> QED
        BY <2>1, <2>2, <3>1, <4>1 DEF ResultsAreTrue, EveryNightIsListed, Unloaded, Loaded
    <3>3. CASE ~Arrive
      <4>1. /\ night' = night
            /\ pc' \in Loaded \cup Unloaded => pc \in Loaded \cup Unloaded
            /\ pc' \in {"day", "done"} => pc \in {"day", "done"}
        BY <1>2, <3>3 DEF Next, vars, Repair, TakeSnapshot, CommitLeader, FreezeReport, Load, Backfill, Plant,
                WriteOn, Build, CompareRaises, Finish, CommitLate, Loaded, Unloaded
      <4> QED
        BY <2>1, <2>2, <4>1 DEF ResultsAreTrue, EveryNightIsListed
    <3> QED
      BY <3>2, <3>3
  <2>6. pc' = "done" => TrueOfNights(cutover[1])'
    <3>1. CASE Finish
      <4>1. cutover' = <<Decided>>
        BY <3>1 DEF Finish
      <4>2. cutover'[1] = Decided
        BY <4>1
      <4>3. TrueOfNights(Decided)
        BY <2>2, DecidedIsTrue
      <4> QED
        BY <2>1, <4>2, <4>3 DEF TrueOfNights, InARow, Clean
    <3>2. CASE ~Finish
      <4>1. pc' = "done" => pc = "done" /\ cutover' = cutover
        BY <1>2, <3>2 DEF Next, vars, Arrive, Repair, TakeSnapshot, CommitLeader, FreezeReport, Load, Backfill,
                Plant, WriteOn, Build, CompareRaises, CommitLate, judged
      <4> QED
        BY <2>1, <4>1 DEF ResultsAreTrue, TrueOfNights, InARow, Clean
    <3> QED
      BY <3>1, <3>2
  <2> QED
    BY <2>3, <2>4, <2>5, <2>6 DEF ResultsAreTrue
<1> QED
  BY <1>1, <1>2

LEMMA ResultsStayAsTheyAre == Spec => [](IInv /\ ResultsAreTrue)
BY InitIInv, NextIInv, InitResults, NextResults, PTL DEF Spec

-----------------------------------------------------------------------------
(* The document, read from the rows that are recorded.                     *)

\* reconcile_nights at the end, and what is recorded of a pair.
Lines == UNION {Recorded(results[n]) : n \in DOMAIN results}
Line(result, pair) ==
    [night |-> result.night, planted |-> result.planted, name |-> pair,
     level |-> IF pair \in Table THEN "table" ELSE "report",
     passed |-> pair \notin result.failing,
     explained |-> IF pair \in Table THEN "none"
                   ELSE IF pair \in result.unexplained THEN "no" ELSE "yes"]

LEMMA RecordedLines ==
    ASSUME NEW result
    PROVE  Recorded(result) = {Line(result, pair) : pair \in Table \cup Report}
BY DEF Recorded, Line

LEMMA LineSays ==
    ASSUME NEW result, NEW pair \in Table \cup Report
    PROVE  LET line == Line(result, pair)
           IN  /\ line.night = result.night /\ line.planted = result.planted /\ line.name = pair
               /\ line.level = "table" <=> pair \in Table
               /\ line.level = "report" <=> pair \in Report
               /\ line.passed <=> pair \notin result.failing
               /\ line.explained = "no" <=> pair \in Report /\ pair \in result.unexplained
<1> DEFINE line == Line(result, pair)
<1>1. /\ line.night = result.night /\ line.planted = result.planted /\ line.name = pair
      /\ line.level = IF pair \in Table THEN "table" ELSE "report"
      /\ line.passed = (pair \notin result.failing)
      /\ line.explained = IF pair \in Table THEN "none"
                          ELSE IF pair \in result.unexplained THEN "no" ELSE "yes"
  BY DEF Line
<1>2. pair \in Report <=> pair \notin Table
  BY SizeAssumption
<1>3. line.level = "table" <=> pair \in Table
  BY <1>1
<1>4. line.level = "report" <=> pair \in Report
  BY <1>1, <1>2
<1>5. line.explained = "no" <=> pair \in Report /\ pair \in result.unexplained
  BY <1>1, <1>2
<1>6. line.passed <=> pair \notin result.failing
  BY <1>1, Zenon
<1> HIDE DEF line
<1>7. line.night = result.night /\ line.planted = result.planted /\ line.name = pair
  BY <1>1
<1> QED
  BY <1>3, <1>4, <1>5, <1>6, <1>7, Zenon DEF line

\* The rows of a night are those of its result.
LEMMA NightlyIsRecorded ==
    ASSUME ResultsAreTrue, NEW n \in DOMAIN results
    PROVE  Nightly(Lines, n) = {Line(results[n], pair) : pair \in Table \cup Report}
<1>1. \A m \in DOMAIN results : results[m].night = m
  BY DEF ResultsAreTrue, ResultIsTrue
<1>2. \A m \in DOMAIN results : \A x \in Recorded(results[m]) : x.night = m
  BY <1>1, RecordedLines, LineSays
<1>3. Nightly(Lines, n) = Recorded(results[n])
  BY <1>2 DEF Nightly, Lines
<1> QED
  BY <1>3, RecordedLines

\* As many rows as pairs: two rows of a night are not of one pair.
LEMMA AsManyLines ==
    ASSUME NEW result, NEW P, P \subseteq Table \cup Report
    PROVE  /\ IsFiniteSet({Line(result, pair) : pair \in P})
           /\ Cardinality({Line(result, pair) : pair \in P}) = Cardinality(P)
<1> DEFINE f == [pair \in P |-> Line(result, pair)]
<1>1. f = [pair \in P |-> f[pair]] /\ \A pair \in P : f[pair] = Line(result, pair)
  OBVIOUS
<1>2. {Line(result, pair) : pair \in P} = {f[pair] : pair \in P}
  OBVIOUS
<1>3. \A p, q \in P : f[p] = f[q] => p = q
  <2> SUFFICES ASSUME NEW p \in P, NEW q \in P, f[p] = f[q] PROVE p = q
    OBVIOUS
  <2>1. f[p].name = p /\ f[q].name = q
    <3>1. f[p] = Line(result, p) /\ f[q] = Line(result, q)
      OBVIOUS
    <3> QED
      BY <3>1, LineSays
  <2> QED
    BY <2>1
<1>4. IsFiniteSet(P)
  BY SizeAssumption, FS_Union, FS_Subset
<1> HIDE DEF f
<1> QED
  BY <1>1, <1>2, <1>3, <1>4, ImageOfSameSize, ImageIsFinite

\* The document calls a night clean exactly if its result was.
LEMMA DocumentAgrees ==
    ASSUME ResultsAreTrue, NEW n \in DOMAIN results
    PROVE  NightLine(Lines, n).clean <=> Clean(results[n])
<1> DEFINE result == results[n]
           ofTables == {r \in Nightly(Lines, n) : r.level = "table" /\ r.passed}
           ofReports == {r \in Nightly(Lines, n) : r.level = "report" /\ r.passed}
           ofUnexplained == {r \in Nightly(Lines, n) : r.explained = "no"}
<1>1. /\ result.failing \subseteq Table \cup Report /\ result.unexplained \subseteq Report
  BY DEF ResultsAreTrue, ResultIsTrue
<1>2. Nightly(Lines, n) = {Line(result, pair) : pair \in Table \cup Report}
  BY NightlyIsRecorded
<1>3. Names(Lines, "table") = Table /\ Names(Lines, "report") = Report
  <2>1. \A x \in Lines : \E pair \in Table \cup Report :
          x.name = pair /\ (x.level = "table" <=> pair \in Table) /\ (x.level = "report" <=> pair \in Report)
    BY RecordedLines, LineSays DEF Lines
  <2>2. ASSUME NEW pair \in Table \cup Report
        PROVE  \E x \in Lines : x.name = pair /\ (pair \in Table => x.level = "table")
                                              /\ (pair \in Report => x.level = "report")
    <3>1. Line(result, pair) \in Lines
      BY RecordedLines DEF Lines
    <3> QED
      BY <3>1, LineSays
  <2> QED
    BY <2>1, <2>2 DEF Names
<1> HIDE DEF result
<1>4. /\ ofTables = {Line(result, pair) : pair \in Table \ result.failing}
      /\ ofReports = {Line(result, pair) : pair \in Report \ result.failing}
      /\ ofUnexplained = {Line(result, pair) : pair \in result.unexplained}
  <2>1. ofTables = {Line(result, pair) : pair \in Table \ result.failing}
    BY <1>2, LineSays
  <2>2. ofReports = {Line(result, pair) : pair \in Report \ result.failing}
    BY <1>2, LineSays
  <2>3. ofUnexplained = {Line(result, pair) : pair \in result.unexplained}
    BY <1>1, <1>2, LineSays
  <2> QED
    BY <2>1, <2>2, <2>3
<1>5. NightLine(Lines, n).clean <=> /\ Cardinality(ofTables) = Cardinality(Table)
                                    /\ Cardinality(ofReports) = Cardinality(Report)
                                    /\ Cardinality(ofUnexplained) = 0
  <2>1. NightLine(Lines, n).clean <=> /\ Cardinality(ofTables) = Cardinality(Names(Lines, "table"))
                                      /\ Cardinality(ofReports) = Cardinality(Names(Lines, "report"))
                                      /\ Cardinality(ofUnexplained) = 0
    BY DEF NightLine
  <2> HIDE DEF ofTables, ofReports, ofUnexplained
  <2> QED
    BY <1>3, <2>1
<1> HIDE DEF ofTables, ofReports, ofUnexplained
<1>6. /\ Cardinality(ofTables) = Cardinality(Table \ result.failing)
      /\ Cardinality(ofReports) = Cardinality(Report \ result.failing)
      /\ Cardinality(ofUnexplained) = Cardinality(result.unexplained)
  <2>1. /\ Table \ result.failing \subseteq Table \cup Report
        /\ Report \ result.failing \subseteq Table \cup Report /\ result.unexplained \subseteq Table \cup Report
    BY <1>1
  <2> QED
    BY <1>4, <2>1, AsManyLines
<1>7. \A S, T : IsFiniteSet(S) => (Cardinality(S \ T) = Cardinality(S) <=> S \cap T = {})
  <2> SUFFICES ASSUME NEW S, NEW T, IsFiniteSet(S)
               PROVE  Cardinality(S \ T) = Cardinality(S) <=> S \cap T = {}
    OBVIOUS
  <2>1. S \ T \subseteq S
    OBVIOUS
  <2>2. Cardinality(S \ T) = Cardinality(S) => S \ T = S
    BY <2>1, FS_Subset
  <2>3. S \cap T = {} <=> S \ T = S
    OBVIOUS
  <2> QED
    BY <2>2, <2>3
<1>8. Cardinality(result.unexplained) = 0 <=> result.unexplained = {}
  <2>1. IsFiniteSet(result.unexplained)
    BY <1>1, SizeAssumption, FS_Subset
  <2> QED
    BY <2>1, FS_EmptySet
<1>9. Clean(result) <=> /\ Table \cap result.failing = {} /\ Report \cap result.failing = {}
                        /\ result.unexplained = {}
  BY <1>1 DEF Clean
<1>10. /\ Cardinality(Table \ result.failing) = Cardinality(Table) <=> Table \cap result.failing = {}
       /\ Cardinality(Report \ result.failing) = Cardinality(Report) <=> Report \cap result.failing = {}
  BY <1>7, SizeAssumption
<1>11. NightLine(Lines, n).clean <=> Clean(result)
  BY <1>5, <1>6, <1>8, <1>9, <1>10, Zenon
<1> QED
  BY <1>11 DEF result

\* Grades that are all perfect add up to one that is.
LEMMA TotalsArePerfect ==
    ASSUME NEW grades, \A n \in DOMAIN grades : Perfect(grades[n])
    PROVE  Perfect(Totals(grades))
<1> DEFINE expected == [n \in DOMAIN grades |-> grades[n].expected]
           detected == [n \in DOMAIN grades |-> grades[n].detected]
           hits == [n \in DOMAIN grades |-> grades[n].hits]
           correct == [n \in DOMAIN grades |-> grades[n].correct]
<1>1. expected = correct /\ detected = correct /\ hits = correct
  BY DEF Perfect
<1>2. Totals(grades) = [expected |-> SumFunction(expected), detected |-> SumFunction(detected),
                        hits |-> SumFunction(hits), correct |-> SumFunction(correct)]
  BY DEF Totals
<1> HIDE DEF expected, detected, hits, correct
<1>3. Totals(grades) = [expected |-> SumFunction(correct), detected |-> SumFunction(correct),
                        hits |-> SumFunction(correct), correct |-> SumFunction(correct)]
  BY <1>1, <1>2
<1> QED
  BY <1>3 DEF Perfect

\* The cutover that is recommended is earned: so many nights in a row were clean, and these
\* are the first; the fixed job ran on each of them. And the document that says so is right
\* about every night, about what was tolerated, and about what was found.
THEOREM RecommendedIsEarned == Spec => []CutoverIsEarned
<1>1. IInv /\ ResultsAreTrue => CutoverIsEarned
  <2> SUFFICES ASSUME ResultsAreTrue, pc = "done" PROVE CutoverIsEarned
    BY DEF CutoverIsEarned
  <2> DEFINE clean(n) == NightLine(Lines, n).clean
             earned(n) == n >= Required /\ \A o \in (n - Required + 1)..n : clean(o)
             decision == cutover[1]
             verdict == Verdict(decision)
             number == verdict.number
  <2>1. PICK S : results \in Seq(S)
    BY DEF ResultsAreTrue, EveryNightIsListed
  <2>2. Len(results) \in Nat /\ DOMAIN results = 1..Len(results) /\ Required \in Nat /\ Required > 0
    BY <2>1, ParallelAssumption
  <2>3. \A o \in DOMAIN results : clean(o) <=> Clean(results[o])
    BY DocumentAgrees
  <2>4. \A o \in DOMAIN results : ResultIsTrue(results[o], o)
    BY DEF ResultsAreTrue
  <2> HIDE DEF clean
  <2>5. \A o \in DOMAIN results : earned(o) <=> InARow(o, Required)
    <3> SUFFICES ASSUME NEW o \in DOMAIN results PROVE earned(o) <=> InARow(o, Required)
      OBVIOUS
    <3>1. o >= Required => \A p \in (o - Required + 1)..o : p \in DOMAIN results
      BY <2>2
    <3> QED
      BY <2>3, <3>1 DEF InARow
  <2>6. TrueOfNights(decision)
    BY DEF ResultsAreTrue
  <2> HIDE DEF decision
  <2>7. IF verdict.recommended
        THEN /\ earned(number) /\ \A o \in DOMAIN results : o < number => ~earned(o)
             /\ \A o \in (number - Required + 1)..number : ~results[o].delivered
        ELSE /\ number < Required /\ \A o \in DOMAIN results : ~earned(o)
             /\ \A o \in (Len(results) - number + 1)..Len(results) : clean(o)
    <3>1. CASE decision.recommended
      <4>1. verdict.recommended /\ number = decision.night
        BY <3>1 DEF Verdict
      <4> HIDE DEF verdict, number
      <4>2. /\ number \in DOMAIN results /\ InARow(number, Required)
            /\ \A o \in DOMAIN results : o < number => ~InARow(o, Required)
        BY <2>6, <3>1, <4>1 DEF TrueOfNights
      <4>3. ASSUME NEW o \in (number - Required + 1)..number PROVE ~results[o].delivered
        <5>1. o \in DOMAIN results /\ Clean(results[o])
          BY <2>2, <4>2 DEF InARow
        <5> QED
          BY <2>4, <5>1 DEF ResultIsTrue
      <4> HIDE DEF earned
      <4> QED
        BY <2>5, <4>1, <4>2, <4>3
    <3>2. CASE ~decision.recommended
      <4>1. ~verdict.recommended /\ number = decision.streak
        BY <3>2 DEF Verdict
      <4> HIDE DEF verdict, number
      <4>2. /\ number \in Nat /\ number < Required /\ InARow(Len(results), number)
            /\ \A o \in DOMAIN results : ~InARow(o, Required)
        BY <2>6, <3>2, <4>1 DEF TrueOfNights
      <4>3. ASSUME NEW o \in (Len(results) - number + 1)..Len(results) PROVE clean(o)
        <5>1. o \in DOMAIN results /\ Clean(results[o])
          BY <2>2, <4>2 DEF InARow
        <5> QED
          BY <2>3, <5>1
      <4> HIDE DEF earned
      <4> QED
        BY <2>5, <4>1, <4>2, <4>3
    <3> QED
      BY <3>1, <3>2
  <2>8. ASSUME NEW o \in Tolerated(Lines) PROVE clean(o)
    <3>1. /\ \E x \in Lines : x.night = o
          /\ \A x \in Nightly(Lines, o) : x.planted > 0 /\ x.passed
      BY DEF Tolerated
    <3>2. o \in DOMAIN results
      <4>1. PICK m \in DOMAIN results : \E x \in Recorded(results[m]) : x.night = o
        BY <3>1 DEF Lines
      <4>2. results[m].night = o
        BY <4>1, RecordedLines, LineSays
      <4> QED
        BY <2>4, <4>1, <4>2 DEF ResultIsTrue
    <3>3. Nightly(Lines, o) = {Line(results[o], pair) : pair \in Table \cup Report}
      BY <3>2, NightlyIsRecorded
    <3>4. \A pair \in Table \cup Report : pair \notin results[o].failing /\ results[o].planted > 0
      BY <3>1, <3>3, LineSays
    <3>5. results[o].failing = {} /\ results[o].planted > 0
      <4>1. results[o].failing \subseteq Table \cup Report
        BY <2>4, <3>2 DEF ResultIsTrue
      <4>2. Table \cup Report # {}
        BY <3>1, <3>3 DEF Nightly
      <4> QED
        BY <3>4, <4>1, <4>2
    <3>6. Clean(results[o])
      BY <2>4, <3>2, <3>5 DEF ResultIsTrue, Clean
    <3> QED
      BY <2>3, <3>2, <3>6
  <2>9. UnexplainedRows(Lines) # {} => logic # {} \/ mishaps > 0
    <3> SUFFICES ASSUME UnexplainedRows(Lines) # {} PROVE logic # {} \/ mishaps > 0
      OBVIOUS
    <3>1. PICK x \in Lines : x.explained = "no"
      BY DEF UnexplainedRows
    <3>2. PICK m \in DOMAIN results : x \in Recorded(results[m])
      BY DEF Lines
    <3>3. results[m].unexplained # {}
      BY <3>1, <3>2, RecordedLines, LineSays
    <3> QED
      BY <2>4, <3>3 DEF ResultIsTrue
  <2>10. mishaps = 0 => Perfect(Totals([o \in DOMAIN results |-> results[o].grade]))
    <3> SUFFICES ASSUME mishaps = 0
                 PROVE  Perfect(Totals([o \in DOMAIN results |-> results[o].grade]))
      OBVIOUS
    <3> DEFINE grades == [o \in DOMAIN results |-> results[o].grade]
    <3>1. \A o \in DOMAIN grades : Perfect(grades[o])
      BY <2>4 DEF ResultIsTrue
    <3> HIDE DEF grades
    <3>2. Perfect(Totals(grades))
      BY <3>1, TotalsArePerfect
    <3> QED
      BY <3>2 DEF grades
  <2> QED
    BY <2>3, <2>7, <2>8, <2>9, <2>10 DEF CutoverIsEarned, clean, decision, Lines
<1> QED
  BY <1>1, ResultsStayAsTheyAre, PTL
=============================================================================
