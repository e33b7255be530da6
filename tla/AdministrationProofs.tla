------------------------ MODULE AdministrationProofs ------------------------
(***************************************************************************)
(* Theorems about what the people who run a node do with it.  The parts of *)
(* Administration share no state: a theorem about one of them rests on the *)
(* invariant of that part, and a step of another part leaves its variables *)
(* as they are (RegistryMoves, SettingsMoves and so on).                   *)
(***************************************************************************)
EXTENDS Administration, ConsoleAccessProofs, LabRunProofs, WellFoundedInduction

-----------------------------------------------------------------------------
(* What is wrong with a camera (CameraHealth).                             *)

(* The camera, the list and the health stay as they were at the beginning, *)
(* and the report is that of describe_camera, once it is there.            *)
HealthTypes ==
  /\ camera \in [enabled: BOOLEAN, uri: Uris]
  /\ listed \in [enabled: BOOLEAN, first: BOOLEAN]
  /\ health \in [ok: BOOLEAN, inside: BOOLEAN, frames: Frames, status: Flags, clip: BOOLEAN,
                  ring: BOOLEAN, worker: Workers]
Described == report.fault = (StreamProblem \notin {{}, {"off"}})
HealthInv == HealthTypes /\ (report = NoReport \/ Described)

LEMMA HealthInitInv == AdminInit => HealthInv
<1> SUFFICES ASSUME AdminInit PROVE HealthInv
  OBVIOUS
<1>1. CASE part = "health"
  <2>1. HealthInit
    BY <1>1 DEF AdminInit
  <2>2. PICK ok \in BOOLEAN, inside \in BOOLEAN, frames \in Frames, flags \in Flags,
             clip \in BOOLEAN, ring \in BOOLEAN, worker \in Workers :
          /\ inside => flags = Up
          /\ ~inside => frames = ""
          /\ ~ok => ~inside /\ ~clip /\ ~ring /\ ~worker.there
          /\ health = [ok |-> ok, inside |-> inside, frames |-> frames, status |-> flags,
                       clip |-> clip, ring |-> ring, worker |-> worker]
    BY <2>1, Zenon DEF HealthInit
  <2>3. health \in [ok: BOOLEAN, inside: BOOLEAN, frames: Frames, status: Flags, clip: BOOLEAN,
                    ring: BOOLEAN, worker: Workers]
    BY <2>2
  <2> QED
    BY <2>1, <2>3 DEF HealthInit, HealthInv, HealthTypes
<1>2. CASE part # "health"
  <2>1. /\ camera = [enabled |-> TRUE, uri |-> "rtsp"] /\ listed = [enabled |-> TRUE, first |-> TRUE]
        /\ health = NoAnswer /\ report = NoReport
    BY <1>2 DEF AdminInit
  <2>2. NoAnswer.status \in Flags /\ NoAnswer.worker \in Workers
    BY DEF NoAnswer, Flags, Workers
  <2>3. NoAnswer \in [ok: BOOLEAN, inside: BOOLEAN, frames: Frames, status: Flags, clip: BOOLEAN,
                      ring: BOOLEAN, worker: Workers]
    BY <2>2 DEF NoAnswer, Frames
  <2>4. camera \in [enabled: BOOLEAN, uri: Uris] /\ listed \in [enabled: BOOLEAN, first: BOOLEAN]
    BY <2>1 DEF Uris
  <2> QED
    BY <2>1, <2>3, <2>4 DEF HealthInv, HealthTypes
<1> QED
  BY <1>1, <1>2

LEMMA HealthMoves == [AdminNext]_adminVars => [Describe]_healthVars
BY DEF AdminNext, adminVars, SettingsMove, LicenceMove, TeardownMove, LabMove

LEMMA HealthNextInv == HealthInv /\ [AdminNext]_adminVars => HealthInv'
<1> SUFFICES ASSUME HealthInv, [Describe]_healthVars PROVE HealthInv'
  BY HealthMoves
<1>1. camera' = camera /\ listed' = listed /\ health' = health
  BY DEF Describe, healthVars
<1>2. HealthTypes'
  BY <1>1 DEF HealthInv, HealthTypes
<1>4. DetectState' = DetectState /\ RingKind' = RingKind /\ SkipReason' = SkipReason
  BY <1>1 DEF DetectState, RingKind, SkipReason
<1>5. DetectProblem' = DetectProblem /\ RingProblem' = RingProblem
  BY <1>1, <1>4, Zenon DEF DetectProblem, RingProblem
<1>6. StreamProblem' = StreamProblem
  BY <1>1, <1>5, Zenon DEF StreamProblem
<1>7. CASE Describe
  <2>1. report'.fault = (StreamProblem \notin {{}, {"off"}})
    BY <1>7, Zenon DEF Describe
  <2>2. Described'
    BY <1>6, <2>1, Zenon DEF Described
  <2> QED
    BY <1>2, <2>2 DEF HealthInv
<1>8. CASE UNCHANGED healthVars
  <2>1. report' = report
    BY <1>8 DEF healthVars
  <2>2. (report = NoReport)' \/ Described'
    BY <1>6, <2>1, Zenon DEF HealthInv, Described, NoReport
  <2> QED
    BY <1>2, <2>2 DEF HealthInv
<1> QED
  BY <1>7, <1>8

LEMMA WorkingHasNoProblem ==
  ASSUME HealthTypes, camera.enabled, Works
  PROVE  StreamProblem = {}
<1>1. DetectState = "live"
  BY DEF Works, DetectState
<1>2. DetectProblem = {}
  BY <1>1 DEF DetectProblem
<1>3. RingKind \in {"skip", "record off"} \/ (RingKind = "live" /\ health.worker.restarts = 0)
  BY DEF Works, RingKind, HealthTypes
<1>4. RingKind \notin {"dead", "stalled", "absent"}
  BY <1>3
<1>5. ~(RingKind = "live" /\ health.worker.restarts > 0)
  <2>1. ~(0 > 0)
    OBVIOUS
  <2> QED
    BY <1>3, <2>1, Zenon
<1>6. RingProblem = {}
  BY <1>4, <1>5, Zenon DEF RingProblem
<1> QED
  BY <1>2, <1>6 DEF StreamProblem

LEMMA BrokenHasProblem ==
  ASSUME HealthTypes, camera.enabled, listed.enabled, ~Works
  PROVE  \E p \in StreamProblem : p # "off"
<1>1. CASE ~health.ok
  BY <1>1 DEF StreamProblem, DetectProblem, DetectState
<1>2. CASE health.ok /\ ~health.inside
  <2>1. DetectProblem = {SkipReason}
    BY <1>2 DEF DetectProblem, DetectState
  <2>2. SkipReason # "off"
    BY DEF SkipReason
  <2> QED
    BY <2>1, <2>2 DEF StreamProblem
<1>3. CASE health.ok /\ health.inside /\ health.frames # "live"
  <2>1. DetectState \in (Frames \ {"live", ""}) \cup {"unknown"}
    BY <1>3 DEF DetectState, HealthTypes
  <2>2. DetectState \in DetectProblem /\ DetectState # "off"
    BY <2>1 DEF DetectProblem, Frames
  <2> QED
    BY <2>2 DEF StreamProblem
<1>4. CASE health.ok /\ health.inside /\ health.frames = "live"
  <2>1. \/ RingKind \in {"dead", "stalled", "absent"}
        \/ RingKind = "live" /\ health.worker.restarts > 0
    <3>1. health.worker.restarts \in {0, 1}
      <4>1. health.worker \in Workers
        BY DEF HealthTypes
      <4>2. ASSUME NEW w \in Workers PROVE w.restarts \in {0, 1}
        <5>1. CASE w = [there |-> FALSE, alive |-> FALSE, stalled |-> FALSE, restarts |-> 0]
          BY <5>1
        <5>2. CASE w \in [there: {TRUE}, alive: BOOLEAN, stalled: BOOLEAN, restarts: {0, 1}]
          BY <5>2
        <5> QED
          BY <5>1, <5>2, Zenon DEF Workers
      <4> QED
        BY <4>1, <4>2
    <3>2. health.worker.restarts # 0 => health.worker.restarts > 0
      BY <3>1
    <3> QED
      BY <1>4, <3>2 DEF Works, RingKind
  <2>2. \E p \in RingProblem : p # "off"
    BY <2>1 DEF RingProblem
  <2> QED
    BY <2>2 DEF StreamProblem
<1> QED
  BY <1>1, <1>2, <1>3, <1>4

(* `cameras errors` passes over an enabled camera exactly when it works,   *)
(* unless it was switched on between the two reads of the cameras          *)
(* (describe_camera and skip_reasons), for every health the video process  *)
(* answers with.                                                           *)
THEOREM FaultCorrect == AdminSpec => []FaultIffBroken
<1>1. HealthInv => FaultIffBroken
  <2> SUFFICES ASSUME HealthInv, report # NoReport, camera.enabled, listed.enabled
               PROVE  report.fault <=> ~Works
    BY DEF FaultIffBroken, HealthInv, HealthTypes
  <2>1. HealthTypes /\ (report.fault <=> StreamProblem \notin {{}, {"off"}})
    BY DEF HealthInv, Described
  <2>2. CASE Works
    BY <2>1, <2>2, WorkingHasNoProblem
  <2>3. CASE ~Works
    <3>1. PICK p \in StreamProblem : p # "off"
      BY <2>1, <2>3, BrokenHasProblem
    <3>2. StreamProblem # {} /\ StreamProblem # {"off"}
      BY <3>1
    <3> QED
      BY <2>1, <2>3, <3>2
  <2> QED
    BY <2>2, <2>3
<1> QED
  BY <1>1, HealthInitInv, HealthNextInv, PTL DEF AdminSpec

-----------------------------------------------------------------------------
(* Lists page by page (HistoryPages).                                      *)

LEMMA LeastOf == ASSUME NEW S \in SUBSET Nat, S # {} PROVE \E m \in S : \A n \in S : m <= n
<1>1. PICK x \in S : \A y \in S : ~(<<y, x>> \in OpToRel(<, Nat))
  BY WFMin, NatLessThanWellFounded, Zenon
<1>2. ASSUME NEW y \in S PROVE x <= y
  <2>1. x \in Nat /\ y \in Nat
    OBVIOUS
  <2>2. ~(y < x)
    BY <1>1, <2>1 DEF OpToRel
  <2> QED
    BY <2>1, <2>2
<1> QED
  BY <1>2

(* A finite set that a strict order sorts has a first member: one that has *)
(* the fewest members before it.                                           *)
LEMMA FirstMember ==
  ASSUME NEW S, IsFiniteSet(S), S # {}, NEW rel,
         \A x \in S : <<x, x>> \notin rel,
         \A x, y, z \in S : <<x, y>> \in rel /\ <<y, z>> \in rel => <<x, z>> \in rel
  PROVE  \E m \in S : \A x \in S : <<x, m>> \notin rel
<1> DEFINE Before(y) == {x \in S : <<x, y>> \in rel}
           Sizes == {Cardinality(Before(y)) : y \in S}
<1>1. ASSUME NEW y \in S PROVE IsFiniteSet(Before(y)) /\ Cardinality(Before(y)) \in Nat
  BY FS_Subset, FS_CardinalityType
<1>2. \E n \in Sizes : \A k \in Sizes : n <= k
  <2> HIDE DEF Before
  <2>1. Sizes \subseteq Nat
    BY <1>1
  <2>2. Sizes # {}
    OBVIOUS
  <2> HIDE DEF Sizes
  <2> QED
    BY <2>1, <2>2, LeastOf, Zenon
<1>3. PICK m \in S : \A y \in S : Cardinality(Before(m)) <= Cardinality(Before(y))
  <2> HIDE DEF Before
  <2>1. PICK n \in Sizes : \A k \in Sizes : n <= k
    BY <1>2
  <2>2. PICK m \in S : n = Cardinality(Before(m))
    BY <2>1
  <2> QED
    BY <2>1, <2>2
<1>4. ASSUME NEW x \in S, <<x, m>> \in rel PROVE FALSE
  <2>1. Before(x) \subseteq Before(m) /\ x \in Before(m) /\ x \notin Before(x)
    BY <1>4
  <2> HIDE DEF Before
  <2>2. Cardinality(Before(x)) < Cardinality(Before(m))
    BY <1>1, <2>1, FS_Subset
  <2> QED
    BY <1>1, <1>3, <2>2
<1> QED
  BY <1>4

(* The order of a list.                                                    *)
Before(i, j) == After(rows[j], j, rows[i], i)

LEMMA RowsAreNumbers == ASSUME PagesTypeOK PROVE \A i \in RowIds : i \in Nat /\ rows[i] \in Nat
<1>1. rows \in [RowIds -> Keys \cup {0}]
  BY DEF PagesTypeOK
<1>2. RowIds \subseteq Nat /\ Keys \cup {0} \subseteq Nat
  BY PagesAssumption
<1> QED
  BY <1>1, <1>2

LEMMA OrderOfRows ==
  ASSUME PagesTypeOK
  PROVE  /\ \A i \in RowIds : ~Before(i, i)
         /\ \A i, j \in RowIds : i # j => Before(i, j) \/ Before(j, i)
         /\ \A i, j, k \in RowIds : Before(i, j) /\ Before(j, k) => Before(i, k)
<1>1. \A i \in RowIds : i \in Nat /\ rows[i] \in Nat
  BY RowsAreNumbers
<1> QED
  BY <1>1 DEF Before, After

LEMMA OrderOfCursor ==
  ASSUME PagesTypeOK, NEW k \in Nat, NEW l \in Nat
  PROVE  \A i, j \in RowIds : Before(i, j) /\ After(rows[i], i, k, l) => After(rows[j], j, k, l)
<1>1. \A i \in RowIds : i \in Nat /\ rows[i] \in Nat
  BY RowsAreNumbers
<1> QED
  BY <1>1 DEF Before, After

Earlier(s, i) == {j \in s : Before(j, i)}

LEMMA FirstRows == ASSUME NEW s, NEW n PROVE FirstOf(s, n) = {i \in s : Cardinality(Earlier(s, i)) < n}
BY DEF FirstOf, Earlier, Before

LEMMA EarlierOf ==
  ASSUME NEW s, s \subseteq RowIds, NEW i
  PROVE  IsFiniteSet(Earlier(s, i)) /\ Cardinality(Earlier(s, i)) \in Nat
<1>1. IsFiniteSet(s) /\ Earlier(s, i) \subseteq s
  BY PagesAssumption, FS_Subset DEF Earlier
<1> QED
  BY <1>1, FS_Subset, FS_CardinalityType

(* A page takes whatever comes before one of its rows.                     *)
LEMMA PageFromStart ==
  ASSUME PagesTypeOK, NEW s, s \subseteq RowIds, NEW n \in Nat,
         NEW i \in s, NEW j \in FirstOf(s, n), Before(i, j)
  PROVE  i \in FirstOf(s, n)
<1>0. j \in s /\ Cardinality(Earlier(s, j)) < n
  BY FirstRows
<1>1. Earlier(s, i) \subseteq Earlier(s, j)
  BY <1>0, OrderOfRows DEF Earlier
<1>2. Cardinality(Earlier(s, i)) <= Cardinality(Earlier(s, j))
  BY <1>1, EarlierOf, FS_Subset
<1>3. Cardinality(Earlier(s, i)) < n
  BY <1>0, <1>2, EarlierOf
<1> QED
  BY <1>3, FirstRows

(* When the row that was asked for beyond the page does not come, the page *)
(* is all there is.                                                        *)
LEMMA LastPage ==
  ASSUME PagesTypeOK, NEW s, s \subseteq RowIds, NEW n \in Nat,
         FirstOf(s, n + 1) = FirstOf(FirstOf(s, n + 1), n)
  PROVE  FirstOf(s, n + 1) = s
<1> DEFINE found == FirstOf(s, n + 1)
           rest  == s \ found
<1>1. found \subseteq s /\ found = FirstOf(found, n)
  BY FirstRows
<1>2. ASSUME rest # {} PROVE FALSE
  <2> DEFINE rel == {p \in s \X s : Before(p[1], p[2])}
  <2>1. \A x, y \in s : <<x, y>> \in rel <=> Before(x, y)
    OBVIOUS
  <2>2. IsFiniteSet(s)
    BY PagesAssumption, FS_Subset
  <2>3. PICK i \in rest : \A j \in rest : ~Before(j, i)
    <3>1. IsFiniteSet(rest) /\ rest \subseteq s
      BY <2>2, FS_Subset
    <3> HIDE DEF rel, rest
    <3>2. /\ \A x \in rest : <<x, x>> \notin rel
          /\ \A x, y, z \in rest : <<x, y>> \in rel /\ <<y, z>> \in rel => <<x, z>> \in rel
      BY <2>1, <3>1, OrderOfRows
    <3> QED
      BY <1>2, <2>1, <3>1, <3>2, FirstMember
  <2> DEFINE before == Earlier(s, i)
  <2>4. i \in s /\ before \subseteq found /\ before \subseteq s
    BY <2>3 DEF Earlier
  <2>5. Cardinality(before) >= n + 1 /\ IsFiniteSet(before) /\ Cardinality(before) \in Nat
    <3>1. ~(Cardinality(before) < n + 1)
      BY <2>3, FirstRows
    <3> QED
      BY <3>1, EarlierOf
  <2>6. before # {}
    BY <2>5, FS_EmptySet
  <2>7. PICK m \in before : \A j \in before : ~Before(m, j)
    <3> DEFINE back == {p \in s \X s : Before(p[2], p[1])}
    <3>1. \A x, y \in s : <<x, y>> \in back <=> Before(y, x)
      OBVIOUS
    <3> HIDE DEF back, before
    <3>2. /\ \A x \in before : <<x, x>> \notin back
          /\ \A x, y, z \in before : <<x, y>> \in back /\ <<y, z>> \in back => <<x, z>> \in back
      BY <2>4, <3>1, OrderOfRows
    <3> QED
      <4>1. \E m \in before : \A x \in before : <<x, m>> \notin back
        BY <2>5, <2>6, <3>2, FirstMember
      <4> QED
        BY <2>4, <3>1, <4>1
  <2>8. before \ {m} \subseteq Earlier(found, m)
    <3>1. ASSUME NEW j \in before \ {m} PROVE j \in found /\ Before(j, m)
      BY <2>4, <2>7, <3>1, OrderOfRows
    <3> QED
      BY <3>1 DEF Earlier
  <2>9. Cardinality(before \ {m}) = Cardinality(before) - 1
    BY <2>5, <2>7, FS_RemoveElement
  <2>10. IsFiniteSet(Earlier(found, m)) /\ Cardinality(Earlier(found, m)) \in Nat
    BY <1>1, EarlierOf
  <2>11. Cardinality(before) - 1 <= Cardinality(Earlier(found, m))
    BY <2>8, <2>9, <2>10, FS_Subset
  <2>12. m \in FirstOf(found, n)
    BY <1>1, <2>4, <2>7
  <2>13. Cardinality(Earlier(found, m)) < n
    BY <2>12, FirstRows
  <2> QED
    BY <2>5, <2>10, <2>11, <2>13
<1> QED
  BY <1>1, <1>2

(* The walk has passed a row, or has not come to it.                       *)
Passed(i) == cursor = End \/ (cursor # Start /\ ~After(rows[i], i, cursor[1], cursor[2]))
PagesInv ==
  /\ PagesTypeOK
  /\ \A i \in steady : rows[i] # 0 /\ shown[i] = IF Passed(i) THEN 1 ELSE 0
  /\ list \in Newest => \A i \in RowIds : shown[i] <= 1 /\ (shown[i] > 0 => rows[i] # 0 /\ Passed(i))

LEMMA PagesMoves == [AdminNext]_adminVars => [PagesNext]_pagesVars
BY DEF AdminNext, adminVars, SettingsMove, LicenceMove, TeardownMove, LabMove

LEMMA Cursors ==
  /\ Start # End
  /\ \A k, i : <<k, i>> # Start /\ <<k, i>> # End
BY DEF Start, End

LEMMA PagesInitInv == AdminInit => PagesInv
<1> SUFFICES ASSUME AdminInit PROVE PagesInv
  OBVIOUS
<1>1. CASE part = "pages"
  <2>1. PagesInit
    BY <1>1 DEF AdminInit
  <2>2. PagesTypeOK
    BY <2>1, PagesAssumption DEF PagesInit, PagesTypeOK, There
  <2>3. \A i \in RowIds : ~Passed(i) /\ shown[i] = 0
    BY <2>1, Cursors DEF PagesInit, Passed
  <2> QED
    BY <2>1, <2>2, <2>3 DEF PagesInit, PagesInv, There
<1>2. CASE part # "pages"
  <2>1. /\ list = "users" /\ limit \in Limits /\ edits = 0 /\ cursor = End
        /\ rows = [i \in RowIds |-> 0] /\ shown = rows /\ steady = {}
    BY <1>2, PagesAssumption DEF AdminInit
  <2>2. PagesTypeOK
    <3>1. rows \in [RowIds -> Keys \cup {0}] /\ shown \in [RowIds -> Nat]
      BY <2>1
    <3>2. edits \in 0..Edits
      BY <2>1, PagesAssumption
    <3>3. list \in ListNames
      BY <2>1 DEF ListNames
    <3> QED
      BY <2>1, <3>1, <3>2, <3>3 DEF PagesTypeOK
  <2> QED
    BY <2>1, <2>2 DEF PagesInv, Newest
<1> QED
  BY <1>1, <1>2

(* The rows of a page have not been shown before, come first of what is    *)
(* left, and the walk has passed them afterwards.                          *)
LEMMA PageNext == ASSUME PagesInv, NextPage PROVE PagesInv'
<1> DEFINE left  == Remaining(cursor)
           found == FirstOf(left, limit + 1)
           page  == FirstOf(found, limit)
<1>0. /\ PagesTypeOK /\ limit \in Nat /\ cursor # End
      /\ UNCHANGED <<list, rows, limit, steady, edits>>
  BY PagesAssumption DEF PagesInv, PagesTypeOK, NextPage
<1>1. /\ shown' = [i \in RowIds |-> shown[i] + IF i \in page THEN 1 ELSE 0]
      /\ IF found = page
         THEN cursor' = End
         ELSE \E last \in page :
                /\ \A i \in page \ {last} : After(rows[last], last, rows[i], i)
                /\ cursor' = <<rows[last], last>>
  BY DEF NextPage
<1>2. page \subseteq found /\ found \subseteq left /\ left \subseteq RowIds
  BY FirstRows DEF Remaining, There
<1>3. \A i \in RowIds : i \in left <=> rows[i] # 0 /\ ~Passed(i)
  BY <1>0 DEF Remaining, There, Passed
<1>4. shown \in [RowIds -> Nat]
  BY <1>0 DEF PagesTypeOK
<1> HIDE DEF left, page
<1>5. \A i \in RowIds : shown'[i] = shown[i] + IF i \in page THEN 1 ELSE 0
  BY <1>1
<1>6. shown' \in [RowIds -> Nat]
  BY <1>1, <1>4
<1>7. CASE found = page
  <2>1. page = left
    BY <1>0, <1>2, <1>7, LastPage DEF page
  <2>2. cursor' = End
    BY <1>1, <1>7
  <2>3. \A i \in RowIds : Passed(i)'
    BY <2>2 DEF Passed
  <2>4. PagesTypeOK'
    BY <1>0, <1>6, <2>2 DEF PagesTypeOK
  <2>5. ASSUME NEW i \in steady PROVE rows'[i] # 0 /\ shown'[i] = 1
    <3>1. i \in RowIds /\ rows[i] # 0 /\ shown[i] = IF Passed(i) THEN 1 ELSE 0
      BY <1>0 DEF PagesInv, PagesTypeOK
    <3> QED
      BY <1>0, <1>3, <1>5, <2>1, <3>1
  <2>6. ASSUME list \in Newest, NEW i \in RowIds PROVE shown'[i] <= 1 /\ (shown'[i] > 0 => rows'[i] # 0)
    <3>1. shown[i] \in Nat /\ shown[i] <= 1 /\ (shown[i] > 0 => rows[i] # 0 /\ Passed(i))
      BY <1>4, <2>6 DEF PagesInv
    <3> QED
      BY <1>0, <1>3, <1>5, <2>1, <3>1
  <2> QED
    BY <1>0, <2>3, <2>4, <2>5, <2>6 DEF PagesInv, PagesTypeOK
<1>8. CASE found # page
  <2>1. PICK last \in page : /\ \A i \in page \ {last} : After(rows[last], last, rows[i], i)
                             /\ cursor' = <<rows[last], last>>
    BY <1>1, <1>8
  <2>2. last \in RowIds /\ rows[last] # 0 /\ ~Passed(last) /\ last \in found
    BY <1>2, <1>3
  <2>3. rows[last] \in Keys /\ rows[last] \in Nat /\ last \in Nat
    BY <2>2, <1>0, RowsAreNumbers DEF PagesTypeOK
  <2>4. PagesTypeOK'
    BY <1>0, <1>6, <2>1, <2>2, <2>3 DEF PagesTypeOK
  <2>5. \A i \in RowIds : Passed(i)' <=> ~Before(last, i)
    <3>1. cursor'[1] = rows[last] /\ cursor'[2] = last
      BY <2>1
    <3>2. cursor' # Start /\ cursor' # End
      BY <2>1, Cursors
    <3>3. list' = list /\ rows' = rows
      BY <1>0
    <3>4. ASSUME NEW i \in RowIds PROVE Passed(i)' <=> ~After(rows[i], i, cursor'[1], cursor'[2])
      BY <3>2, <3>3 DEF Passed, After
    <3> QED
      BY <3>1, <3>4 DEF Before
  <2>6. \A i \in page : ~Before(last, i)
    BY <1>0, <1>2, <2>1, <2>2, OrderOfRows DEF Before
  <2>7. ASSUME NEW i \in left, ~Before(last, i) PROVE i \in page
    <3>1. CASE i = last
      BY <3>1
    <3>2. CASE i # last
      <4>1. Before(i, last)
        BY <1>0, <1>2, <2>2, <2>7, <3>2, OrderOfRows
      <4>2. i \in found
        BY <1>0, <1>2, <2>2, <4>1, PageFromStart
      <4> HIDE DEF found
      <4> QED
        BY <1>0, <1>2, <2>1, <4>1, <4>2, PageFromStart DEF page
    <3> QED
      BY <3>1, <3>2
  <2>8. ASSUME NEW i \in RowIds, Passed(i) PROVE ~Before(last, i)
    <3>1. cursor # Start /\ cursor \in Keys \X RowIds
      BY <1>0, <2>8 DEF Passed, PagesTypeOK
    <3>2. cursor[1] \in Nat /\ cursor[2] \in Nat
      BY <3>1, PagesAssumption
    <3>3. ~After(rows[i], i, cursor[1], cursor[2])
      BY <1>0, <2>8 DEF Passed
    <3>4. After(rows[last], last, cursor[1], cursor[2])
      BY <2>2, <3>1 DEF Passed
    <3> QED
      BY <1>0, <2>2, <3>2, <3>3, <3>4, OrderOfCursor
  <2>9. ASSUME NEW i \in steady PROVE rows'[i] # 0 /\ shown'[i] = IF Passed(i)' THEN 1 ELSE 0
    <3>1. i \in RowIds /\ rows[i] # 0 /\ shown[i] = IF Passed(i) THEN 1 ELSE 0
      BY <1>0 DEF PagesInv, PagesTypeOK
    <3>2. CASE i \in page
      <4>1. ~Passed(i) /\ Passed(i)'
        BY <1>2, <1>3, <2>5, <2>6, <3>1, <3>2
      <4> QED
        BY <1>0, <1>5, <3>1, <3>2, <4>1
    <3>3. CASE i \notin page /\ i \in left
      <4>1. ~Passed(i) /\ ~Passed(i)'
        BY <1>3, <2>5, <2>7, <3>1, <3>3
      <4> QED
        BY <1>0, <1>5, <3>1, <3>3, <4>1
    <3>4. CASE i \notin left
      <4>1. Passed(i) /\ Passed(i)' /\ i \notin page
        BY <1>2, <1>3, <2>5, <2>8, <3>1, <3>4
      <4> QED
        BY <1>0, <1>5, <3>1, <4>1
    <3> QED
      BY <3>2, <3>3, <3>4
  <2>10. ASSUME list \in Newest, NEW i \in RowIds
         PROVE  shown'[i] <= 1 /\ (shown'[i] > 0 => rows'[i] # 0 /\ Passed(i)')
    <3>1. shown[i] \in Nat /\ shown[i] <= 1 /\ (shown[i] > 0 => rows[i] # 0 /\ Passed(i))
      BY <1>4, <2>10 DEF PagesInv
    <3>2. i \in page => rows[i] # 0 /\ ~Passed(i) /\ Passed(i)'
      BY <1>2, <1>3, <2>5, <2>6
    <3>3. Passed(i) => Passed(i)'
      BY <2>5, <2>8
    <3> QED
      BY <1>0, <1>5, <3>1, <3>2, <3>3
  <2> QED
    BY <1>0, <2>4, <2>9, <2>10 DEF PagesInv
<1> QED
  BY <1>7, <1>8

(* A row that moves to the end of the queue is one the walk has passed or  *)
(* has not come to, as before.                                             *)
LEMMA EditNext ==
  ASSUME PagesInv, NEW i \in RowIds, Insert(i) \/ Alter(i) \/ Remove(i)
  PROVE  PagesInv'
<1>1. PICK k \in Keys \cup {0} :
        /\ Edit(i, k)
        /\ list \in Newest => rows[i] = 0 \/ (list = "outbound" /\ Latest(k) /\ k # 0)
  <2>1. 0 \notin Keys
    BY PagesAssumption
  <2>2. CASE Insert(i)
    BY <2>2 DEF Insert
  <2>3. CASE Alter(i)
    BY <2>1, <2>3 DEF Alter, Newest
  <2>4. CASE Remove(i)
    BY <2>4 DEF Remove, Newest
  <2> QED
    BY <2>2, <2>3, <2>4
<1>2. /\ cursor \notin {Start, End} /\ rows[i] # k /\ edits > 0
      /\ rows' = [rows EXCEPT ![i] = k] /\ steady' = steady \ {i} /\ edits' = edits - 1
      /\ UNCHANGED <<list, limit, cursor, shown>>
  BY <1>1 DEF Edit
<1>3. PagesTypeOK
  BY DEF PagesInv
<1>4. cursor \in Keys \X RowIds
  BY <1>2, <1>3 DEF PagesTypeOK
<1>5. rows' \in [RowIds -> Keys \cup {0}] /\ \A j \in RowIds : rows'[j] = IF j = i THEN k ELSE rows[j]
  BY <1>2, <1>3 DEF PagesTypeOK
<1>6. edits' \in 0..Edits
  BY <1>2, <1>3, PagesAssumption DEF PagesTypeOK
<1>7. PagesTypeOK'
  BY <1>2, <1>3, <1>5, <1>6 DEF PagesTypeOK
<1>8. \A j \in RowIds \ {i} : Passed(j)' <=> Passed(j)
  BY <1>2, <1>5 DEF Passed, After
<1>9. ASSUME NEW j \in steady' PROVE rows'[j] # 0 /\ shown'[j] = IF Passed(j)' THEN 1 ELSE 0
  <2>1. j \in RowIds \ {i} /\ rows[j] # 0 /\ shown[j] = IF Passed(j) THEN 1 ELSE 0
    BY <1>2, <1>3 DEF PagesInv, PagesTypeOK
  <2> QED
    BY <1>2, <1>5, <1>8, <2>1
<1>10. ASSUME list \in Newest, NEW j \in RowIds
       PROVE  shown'[j] <= 1 /\ (shown'[j] > 0 => rows'[j] # 0 /\ Passed(j)')
  <2>1. shown'[j] = shown[j] /\ shown[j] <= 1 /\ (shown[j] > 0 => rows[j] # 0 /\ Passed(j))
    BY <1>2, <1>10 DEF PagesInv
  <2>2. CASE j # i
    BY <1>5, <1>8, <2>1, <2>2
  <2>3. CASE j = i /\ shown[j] > 0
    <3>1. list = "outbound" /\ Latest(k) /\ k # 0
      BY <1>1, <1>10, <2>1, <2>3
    <3>2. rows[i] \in Nat /\ k \in Nat /\ rows[i] < k
      <4>1. rows[i] \in Nat /\ k \in Nat /\ rows[i] <= k
        BY <1>3, <3>1, RowsAreNumbers, PagesAssumption DEF Latest
      <4> QED
        BY <1>2, <4>1
    <3>3. cursor[1] \in Nat /\ cursor[2] \in Nat /\ i \in Nat
      BY <1>4, PagesAssumption
    <3>4. ~After(rows[i], i, cursor[1], cursor[2])
      BY <1>2, <2>1, <2>3 DEF Passed
    <3>5. ~After(k, i, cursor[1], cursor[2]) /\ UNCHANGED list
      BY <1>2, <1>10, <3>2, <3>3, <3>4 DEF After
    <3>6. Passed(i)'
      BY <1>2, <1>5, <3>5 DEF Passed, After
    <3> QED
      BY <1>5, <2>1, <2>3, <3>1, <3>6
  <2> QED
    BY <2>1, <2>2, <2>3
<1> QED
  BY <1>2, <1>7, <1>9, <1>10 DEF PagesInv

LEMMA PagesNextInv == PagesInv /\ [PagesNext]_pagesVars => PagesInv'
<1> SUFFICES ASSUME PagesInv, [PagesNext]_pagesVars PROVE PagesInv'
  OBVIOUS
<1>1. CASE UNCHANGED pagesVars
  BY <1>1 DEF PagesInv, PagesTypeOK, Passed, After, pagesVars
<1> QED
  BY <1>1, PageNext, EditNext DEF PagesNext

(* Whoever follows the cursor to the end is given every row that stays     *)
(* exactly once, and no row of the history or the queue twice, whatever    *)
(* the order among rows of the same key and whatever changes beside it     *)
(* (paging.py).                                                            *)
THEOREM PagesCorrect == AdminSpec => []EachRowOnce
<1>1. PagesInv => EachRowOnce
  BY DEF PagesInv, EachRowOnce, Passed
<1> QED
  BY PagesNextInv, <1>1, PagesInitInv, PagesMoves, PTL DEF AdminSpec

-----------------------------------------------------------------------------
(* Cameras (CameraRegistry).                                               *)

LEMMA RegistryMoves == [AdminNext]_adminVars => [RegistryNext]_registryVars
BY DEF AdminNext, adminVars, SettingsMove, LicenceMove, TeardownMove, LabMove

LEMMA AbsentRow == Absent \in Row /\ [i \in Ids |-> Absent] \in [Ids -> Row]
BY DEF Absent, Row

LEMMA IdleShape == Idle \in Requests
BY AbsentRow DEF Idle, Requests, Pcs, Ops, Thens, Adds, Patches

LEMMA LiveOf == \A rows_ : Live(rows_) \subseteq Ids
BY DEF Live

LEMMA NewIdsOf ==
  ASSUME NEW t, NEW existing
  PROVE  /\ NewIds(t, existing) \subseteq Ids \ existing
         /\ req[t].op # "batch" => \A i \in NewIds(t, existing) : table[i] = Absent
BY DEF NewIds

LEMMA RegistryInitTypes == RegistryInit => RegistryTypeOK
<1> SUFFICES ASSUME RegistryInit PROVE RegistryTypeOK
  OBVIOUS
<1>1. PICK on \in SUBSET (Ids \cap {1}) :
        /\ table = [i \in Ids |-> IF i \in on THEN [on |-> TRUE, uri |-> 1] ELSE Absent]
        /\ video = [shown |-> on, flag |-> FALSE, playing |-> on, missed |-> FALSE]
  BY DEF RegistryInit
<1>2. table \in [Ids -> Row]
  <2>1. [on |-> TRUE, uri |-> 1] \in Row
    BY DEF Row
  <2> QED
    BY <1>1, <2>1, AbsentRow
<1>3. video \in [shown: SUBSET Ids, flag: BOOLEAN, playing: SUBSET Ids, missed: BOOLEAN]
  BY <1>1
<1>4. req \in [Threads -> Requests]
  BY IdleShape DEF RegistryInit
<1>5. /\ version = 0 /\ changed = [i \in Ids |-> 0] /\ inserted = 0
      /\ cache = [s \in Stores |-> None] /\ budget \in [{"request", "view", "ring", "fault"} -> Nat]
  BY RegistryAssumption DEF RegistryInit
<1> QED
  BY <1>2, <1>3, <1>4, <1>5 DEF RegistryTypeOK

LEMMA SetOK ==
  ASSUME req \in [Threads -> Requests], NEW t \in Threads, NEW r \in Requests, Set(t, r)
  PROVE  /\ req' \in [Threads -> Requests]
         /\ \A u \in Threads : req'[u] = IF u = t THEN r ELSE req[u]
BY DEF Set

LEMMA UseOK ==
  ASSUME RegistryTypeOK, NEW t \in Threads, NEW list_ \in [Ids -> Row], NEW ver \in Nat,
         Use(t, list_, ver)
  PROVE  /\ req' \in [Threads -> Requests]
         /\ video' \in [shown: SUBSET Ids, flag: BOOLEAN, playing: SUBSET Ids, missed: BOOLEAN]
<1> DEFINE r   == req[t]
           new == NewIds(t, Exists(list_))
<1>0. req \in [Threads -> Requests] /\ r \in Requests /\ new \subseteq Ids
      /\ video \in [shown: SUBSET Ids, flag: BOOLEAN, playing: SUBSET Ids, missed: BOOLEAN]
  BY NewIdsOf DEF RegistryTypeOK
<1>1. \/ Done(t) /\ UNCHANGED video
      \/ Set(t, [r EXCEPT !.pc = "look", !.then = "guard", !.ids = new, !.looked = ver]) /\ UNCHANGED video
      \/ Set(t, [r EXCEPT !.pc = "write", !.listed = ver]) /\ UNCHANGED video
      \/ /\ video' = [video EXCEPT !.shown = Live(list_)]
         /\ Set(t, [r EXCEPT !.pc = "start", !.ids = Live(list_)])
  BY DEF Use
<1> HIDE DEF new, r
<1>2. Live(list_) \subseteq Ids
  BY LiveOf
<1>3. /\ [r EXCEPT !.pc = "look", !.then = "guard", !.ids = new, !.looked = ver] \in Requests
      /\ [r EXCEPT !.pc = "write", !.listed = ver] \in Requests
      /\ [r EXCEPT !.pc = "start", !.ids = Live(list_)] \in Requests
  BY <1>0, <1>2 DEF Requests, Pcs, Thens
<1>4. [video EXCEPT !.shown = Live(list_)] \in
        [shown: SUBSET Ids, flag: BOOLEAN, playing: SUBSET Ids, missed: BOOLEAN]
  BY <1>0, <1>2
<1> QED
  BY <1>0, <1>1, <1>3, <1>4, IdleShape, SetOK DEF Done

LEMMA SpendOK ==
  ASSUME RegistryTypeOK, NEW kind \in {"request", "view", "ring", "fault"}, Spend(kind)
  PROVE  budget' \in [{"request", "view", "ring", "fault"} -> Nat]
BY DEF RegistryTypeOK, Spend

LEMMA BeginOK ==
  ASSUME RegistryTypeOK, NEW t \in Threads, NEW op \in Ops, NEW ids \in SUBSET Ids, NEW pc \in Pcs,
         NEW then \in Thens, Begin(t, op, ids, pc, then),
         budget' \in [{"request", "view", "ring", "fault"} -> Nat]
  PROVE  RegistryTypeOK'
<1>1. [Idle EXCEPT !.op = op, !.ids = ids, !.pc = pc, !.then = then] \in Requests
  BY IdleShape DEF Requests
<1>2. req' \in [Threads -> Requests] /\ UNCHANGED <<table, version, changed, inserted, cache, video>>
  BY <1>1, SetOK DEF Begin, RegistryTypeOK, tables
<1> QED
  BY <1>2 DEF RegistryTypeOK

LEMMA WrittenOK ==
  ASSUME RegistryTypeOK, NEW t \in Threads, NEW i \in Ids,
         req[t].op \in Adds \cup Patches \cup {"delete"}
  PROVE  Written(t, i) \in Row
<1>1. req[t].rows[i] \in Row /\ NewUri \in Nat
  BY DEF RegistryTypeOK, Requests, NewUri
<1>2. ASSUME NEW r \in Row, NEW n \in Nat
      PROVE  [r EXCEPT !.on = FALSE] \in Row /\ [r EXCEPT !.uri = n] \in Row /\ [on |-> TRUE, uri |-> n] \in Row
  BY DEF Row
<1>3. req[t].op \in Adds => Written(t, i) = [on |-> TRUE, uri |-> NewUri]
  BY DEF Written, Adds
<1>4. req[t].op = "disable" => Written(t, i) = [req[t].rows[i] EXCEPT !.on = FALSE]
  BY DEF Written, Adds
<1>5. req[t].op = "edit" => Written(t, i) = [req[t].rows[i] EXCEPT !.uri = NewUri]
  BY DEF Written, Adds
<1>6. req[t].op = "delete" => Written(t, i) = Absent
  BY DEF Written, Adds
<1> QED
  BY <1>1, <1>2, <1>3, <1>4, <1>5, <1>6, AbsentRow DEF Patches

(* Which requests come to which step.                                      *)
Listing == {"look", "fetch", "fill"}
Shape(t, r) ==
  /\ r.pc = "exists" => r.op = "add" /\ r.then = "guard"
  /\ r.pc \in Listing => \/ r.then \in {"plan", "guard"} /\ r.op \in Adds /\ t \in Requesters
                         \/ r.then = "view" /\ r.op = "view"
                         \/ r.then = "build" /\ r.op = "build" /\ t = Loop
  /\ r.pc = "get" => r.op \in Patches /\ \E i \in Ids : r.ids = {i}
  /\ r.pc = "write" => r.op \in Adds \cup Patches \cup {"delete"}
  /\ r.pc \in {"exists", "get", "write", "invalidate", "notify", "raise", "poll"} => t \in Requesters
  /\ r.pc = "start" => t = Loop /\ r.op = "build"
  /\ t = Loop => IF r.pc = "idle" THEN r.op = "none" ELSE r.op = "build" /\ r.pc \in Listing \cup {"start"}
Others == UNCHANGED <<version, changed, inserted>>
OthersOK ==
  /\ version \in Nat /\ changed \in [Ids -> Nat] /\ inserted \in Nat /\ table \in [Ids -> Row]
  /\ budget \in [{"request", "view", "ring", "fault"} -> Nat]
CacheOK == \A s \in Stores : cache[s] = None \/ cache[s] \in Lists
VideoOK == video \in [shown: SUBSET Ids, flag: BOOLEAN, playing: SUBSET Ids, missed: BOOLEAN]
Shapes  == \A t \in Threads : Shape(t, req[t])
RegistryInv == RegistryTypeOK /\ Shapes

LEMMA TypesOf == RegistryTypeOK <=> OthersOK /\ CacheOK /\ VideoOK /\ req \in [Threads -> Requests]
BY DEF RegistryTypeOK, OthersOK, CacheOK, VideoOK

LEMMA IdleFits == \A t \in Threads : Shape(t, Idle)
BY DEF Shape, Idle, Listing

LEMMA ShapesKept ==
  ASSUME RegistryInv, NEW t \in Threads, NEW r \in Requests, Set(t, r), Shape(t, r)
  PROVE  req' \in [Threads -> Requests] /\ Shapes'
<1>1. req' \in [Threads -> Requests] /\ \A u \in Threads : req'[u] = IF u = t THEN r ELSE req[u]
  BY SetOK DEF RegistryInv, RegistryTypeOK
<1>2. ASSUME NEW u \in Threads, NEW q, q = req'[u] PROVE Shape(u, q)
  BY <1>1, <1>2, Zenon DEF RegistryInv, Shapes
<1> QED
  BY <1>1, <1>2, Zenon DEF Shapes

LEMMA DoneKept ==
  ASSUME RegistryInv, NEW t \in Threads, Done(t)
  PROVE  req' \in [Threads -> Requests] /\ Shapes'
BY IdleShape, IdleFits, ShapesKept DEF Done

LEMMA MoveKept ==
  ASSUME RegistryInv, NEW t \in Threads, NEW pc \in {"fetch", "invalidate", "notify", "raise"}, Move(t, pc),
         pc = "fetch" => req[t].pc = "look", pc # "fetch" => t \in Requesters /\ t # Loop
  PROVE  req' \in [Threads -> Requests] /\ Shapes'
<1> DEFINE q == [req[t] EXCEPT !.pc = pc]
<1>1. req[t] \in Requests /\ Shape(t, req[t])
  BY DEF RegistryInv, RegistryTypeOK, Shapes
<1>2. q \in Requests /\ q.pc = pc /\ q.then = req[t].then /\ q.op = req[t].op /\ q.ids = req[t].ids
  BY <1>1 DEF Requests, Pcs
<1>3. Set(t, q)
  BY DEF Move
<1> HIDE DEF q
<1>4. Shape(t, q)
  BY <1>1, <1>2 DEF Shape, Listing
<1> QED
  BY <1>2, <1>3, <1>4, ShapesKept

LEMMA UseKept ==
  ASSUME RegistryInv, NEW t \in Threads, req[t].pc \in {"look", "fill"}, NEW list_ \in [Ids -> Row],
         NEW ver \in Nat, Use(t, list_, ver)
  PROVE  req' \in [Threads -> Requests] /\ Shapes'
<1> DEFINE r   == req[t]
           new == NewIds(t, Exists(list_))
           live == Live(list_)
<1>1. \/ Done(t)
      \/ r.then = "plan" /\ Set(t, [r EXCEPT !.pc = "look", !.then = "guard", !.ids = new, !.looked = ver])
      \/ r.then = "guard" /\ Set(t, [r EXCEPT !.pc = "write", !.listed = ver])
      \/ r.then = "build" /\ Set(t, [r EXCEPT !.pc = "start", !.ids = live])
  BY DEF Use
<1>2. r \in Requests /\ Shape(t, r) /\ new \subseteq Ids /\ live \subseteq Ids /\ r.pc \in Listing
  BY NewIdsOf, LiveOf DEF RegistryInv, RegistryTypeOK, Shapes, Listing
<1> HIDE DEF r, new, live
<1>3. CASE Done(t)
  BY <1>3, DoneKept
<1>4. CASE r.then = "plan" /\ Set(t, [r EXCEPT !.pc = "look", !.then = "guard", !.ids = new, !.looked = ver])
  <2> DEFINE q == [r EXCEPT !.pc = "look", !.then = "guard", !.ids = new, !.looked = ver]
  <2>1. q \in Requests /\ q.pc = "look" /\ q.then = "guard" /\ q.op = r.op
    BY <1>2 DEF Requests, Pcs, Thens
  <2>2. Set(t, q)
    BY <1>4
  <2>3. r.op \in Adds /\ t \in Requesters /\ t # Loop
    BY <1>2, <1>4, RegistryAssumption DEF Shape, Requesters
  <2> HIDE DEF q
  <2>4. Shape(t, q)
    BY <2>1, <2>3 DEF Shape, Listing
  <2> QED
    BY <2>1, <2>2, <2>4, ShapesKept
<1>5. CASE r.then = "guard" /\ Set(t, [r EXCEPT !.pc = "write", !.listed = ver])
  <2> DEFINE q == [r EXCEPT !.pc = "write", !.listed = ver]
  <2>1. q \in Requests /\ q.pc = "write" /\ q.op = r.op
    BY <1>2 DEF Requests, Pcs
  <2>2. Set(t, q)
    BY <1>5
  <2>3. r.op \in Adds /\ t \in Requesters /\ t # Loop
    BY <1>2, <1>5, RegistryAssumption DEF Shape, Requesters
  <2> HIDE DEF q
  <2>4. Shape(t, q)
    BY <2>1, <2>3 DEF Shape, Listing
  <2> QED
    BY <2>1, <2>2, <2>4, ShapesKept
<1>6. CASE r.then = "build" /\ Set(t, [r EXCEPT !.pc = "start", !.ids = live])
  <2> DEFINE q == [r EXCEPT !.pc = "start", !.ids = live]
  <2>1. q \in Requests /\ q.pc = "start" /\ q.op = r.op
    BY <1>2 DEF Requests, Pcs
  <2>2. Set(t, q)
    BY <1>6
  <2>3. r.op = "build" /\ t = Loop
    BY <1>2, <1>6 DEF Shape
  <2> HIDE DEF q
  <2>4. Shape(t, q)
    BY <2>1, <2>3 DEF Shape, Listing
  <2> QED
    BY <2>1, <2>2, <2>4, ShapesKept
<1> QED
  BY <1>1, <1>3, <1>4, <1>5, <1>6

LEMMA RequestTypesKept ==
  ASSUME RegistryInv, NEW t \in Threads, Request(t) \/ View(t)
  PROVE  RegistryInv'
<1>0. {"put", "add", "batch", "import", "disable", "edit", "delete", "view"} \subseteq Ops /\ Patches = {"disable", "edit"}
      /\ {"look", "exists", "get", "write"} \subseteq Pcs /\ {"guard", "view", "plan"} \subseteq Thens
      /\ {"put", "add", "batch", "import"} = Adds
  BY DEF Ops, Adds, Patches, Pcs, Thens
<1>1. OthersOK /\ CacheOK /\ VideoOK
  BY TypesOf DEF RegistryInv
<1>2. budget' \in [{"request", "view", "ring", "fault"} -> Nat]
  BY SpendOK DEF Request, View, RegistryInv
<1>3. ASSUME req' \in [Threads -> Requests], Shapes', UNCHANGED <<table, version, changed, inserted, cache, video>>
      PROVE  RegistryInv'
  <2>1. OthersOK' /\ CacheOK' /\ VideoOK'
    BY <1>1, <1>2, <1>3 DEF OthersOK, CacheOK, VideoOK
  <2> QED
    BY <1>3, <2>1, TypesOf DEF RegistryTypeOK, RegistryInv, OthersOK, CacheOK, VideoOK
<1>a. ASSUME NEW op \in Ops, NEW ids \in SUBSET Ids, NEW pc \in Pcs, NEW then \in Thens,
             Begin(t, op, ids, pc, then),
             \A r \in Requests : r.pc = pc /\ r.op = op /\ r.then = then /\ r.ids = ids => Shape(t, r)
      PROVE  RegistryInv'
  <2> DEFINE q == [Idle EXCEPT !.op = op, !.ids = ids, !.pc = pc, !.then = then]
  <2>1. q \in Requests /\ q.pc = pc /\ q.op = op /\ q.then = then /\ q.ids = ids
    BY <1>a, IdleShape DEF Requests
  <2>2. Set(t, q) /\ UNCHANGED <<table, version, changed, inserted, cache, video>>
    BY <1>a DEF Begin, tables
  <2> HIDE DEF q
  <2>3. Shape(t, q)
    BY <1>a, <2>1
  <2>4. req' \in [Threads -> Requests] /\ Shapes'
    BY <2>1, <2>2, <2>3, ShapesKept
  <2> QED
    BY <1>3, <2>2, <2>4
<1>4. CASE View(t)
  <2>1. Begin(t, "view", {}, "look", "view") /\ t # Loop
    BY <1>4, RegistryAssumption DEF View
  <2>2. \A r \in Requests : r.pc = "look" /\ r.op = "view" /\ r.then = "view" /\ r.ids = {} => Shape(t, r)
    BY <2>1 DEF Shape, Listing
  <2> QED
    BY <1>0, <1>a, <2>1, <2>2
<1>5. CASE Request(t)
  <2>0. t \in Requesters /\ t # Loop
    BY <1>5, RegistryAssumption DEF Request, Requesters
  <2>1. \/ \E i \in Ids : Begin(t, "put", {i}, "look", "guard")
        \/ \E i \in Ids : Begin(t, "add", {i}, "exists", "guard")
        \/ \E i \in Ids, op \in Patches : Begin(t, op, {i}, "get", "view")
        \/ \E i \in Ids : Begin(t, "delete", {i}, "write", "view")
        \/ \E op \in {"batch", "import"} : Begin(t, op, {}, "look", "plan")
    BY <1>5 DEF Request
  <2>2. CASE \E i \in Ids : Begin(t, "put", {i}, "look", "guard")
    <3>1. PICK i \in Ids : Begin(t, "put", {i}, "look", "guard")
      BY <2>2
    <3>2. \A r \in Requests : r.pc = "look" /\ r.op = "put" /\ r.then = "guard" /\ r.ids = {i} => Shape(t, r)
      BY <2>0, <1>0 DEF Shape, Listing
    <3>3. "put" \in Ops /\ {i} \in SUBSET Ids /\ "look" \in Pcs /\ "guard" \in Thens
      BY <1>0, <3>1
    <3> QED
      BY <3>1, <3>2, <3>3, <1>a
  <2>3. CASE \E i \in Ids : Begin(t, "add", {i}, "exists", "guard")
    <3>1. PICK i \in Ids : Begin(t, "add", {i}, "exists", "guard")
      BY <2>3
    <3>2. \A r \in Requests : r.pc = "exists" /\ r.op = "add" /\ r.then = "guard" /\ r.ids = {i} => Shape(t, r)
      BY <2>0, <1>0 DEF Shape, Listing
    <3>3. "add" \in Ops /\ {i} \in SUBSET Ids /\ "exists" \in Pcs /\ "guard" \in Thens
      BY <1>0, <3>1
    <3> QED
      BY <3>1, <3>2, <3>3, <1>a
  <2>4. CASE \E i \in Ids, op \in Patches : Begin(t, op, {i}, "get", "view")
    <3>1. PICK i \in Ids, op \in Patches : Begin(t, op, {i}, "get", "view")
      BY <2>4
    <3>2. \A r \in Requests : r.pc = "get" /\ r.op = op /\ r.then = "view" /\ r.ids = {i} => Shape(t, r)
      BY <2>0, <1>0 DEF Shape, Listing
    <3>3. op \in Ops /\ {i} \in SUBSET Ids /\ "get" \in Pcs /\ "view" \in Thens
      BY <1>0, <3>1
    <3> QED
      BY <3>1, <3>2, <3>3, <1>a
  <2>5. CASE \E i \in Ids : Begin(t, "delete", {i}, "write", "view")
    <3>1. PICK i \in Ids : Begin(t, "delete", {i}, "write", "view")
      BY <2>5
    <3>2. \A r \in Requests : r.pc = "write" /\ r.op = "delete" /\ r.then = "view" /\ r.ids = {i} => Shape(t, r)
      BY <2>0, <1>0 DEF Shape, Listing
    <3>3. "delete" \in Ops /\ {i} \in SUBSET Ids /\ "write" \in Pcs /\ "view" \in Thens
      BY <1>0, <3>1
    <3> QED
      BY <3>1, <3>2, <3>3, <1>a
  <2>6. CASE \E op \in {"batch", "import"} : Begin(t, op, {}, "look", "plan")
    <3>1. PICK op \in {"batch", "import"} : Begin(t, op, {}, "look", "plan")
      BY <2>6
    <3>2. \A r \in Requests : r.pc = "look" /\ r.op = op /\ r.then = "plan" /\ r.ids = {} => Shape(t, r)
      BY <2>0, <1>0 DEF Shape, Listing
    <3>3. op \in Ops /\ {} \in SUBSET Ids /\ "look" \in Pcs /\ "plan" \in Thens
      BY <1>0, <3>1
    <3> QED
      BY <3>1, <3>2, <3>3, <1>a
  <2> QED
    BY <2>1, <2>2, <2>3, <2>4, <2>5, <2>6
<1> QED
  BY <1>4, <1>5

LEMMA RegistryKept ==
  ASSUME RegistryInv, req' \in [Threads -> Requests], Shapes',
         table' = table \/ table' \in [Ids -> Row],
         Others \/ (version' = version + 1 /\ changed' \in [Ids -> Nat] /\ inserted' \in Nat),
         cache' = cache \/ \E s \in Stores, l \in Lists \cup {None} : cache' = [cache EXCEPT ![s] = l],
         video' = video \/ VideoOK', UNCHANGED budget
  PROVE  RegistryInv'
<1>1. OthersOK /\ CacheOK /\ VideoOK
  BY TypesOf DEF RegistryInv
<1>2. OthersOK'
  BY <1>1 DEF OthersOK, Others
<1>3. CacheOK'
  <2>1. ASSUME NEW s \in Stores, NEW l \in Lists \cup {None}, cache' = [cache EXCEPT ![s] = l],
               NEW u \in Stores
        PROVE  cache'[u] = None \/ cache'[u] \in Lists
    <3>1. cache'[u] = cache[u] \/ cache'[u] = l \/ cache' = cache
      BY <2>1
    <3> QED
      BY <1>1, <3>1 DEF CacheOK
  <2> QED
    BY <1>1, <2>1 DEF CacheOK
<1>4. VideoOK'
  BY <1>1 DEF VideoOK
<1> QED
  BY <1>2, <1>3, <1>4 DEF RegistryInv, RegistryTypeOK, OthersOK, CacheOK, VideoOK

LEMMA StoreThere == \A t \in Threads : StoreOf(t) \in Stores /\ Video \in Stores
BY DEF StoreOf, Stores, Procs, Residents

LEMMA RegistryStepTypes ==
  ASSUME RegistryInv, NEW t \in Threads, RegistryStep(t), ~VideoFails(t)
  PROVE  RegistryInv'
<1>0. /\ req[t] \in Requests /\ Shape(t, req[t]) /\ req \in [Threads -> Requests]
      /\ OthersOK /\ CacheOK /\ VideoOK /\ RegistryTypeOK
  BY TypesOf DEF RegistryInv, RegistryTypeOK, Shapes
<1>a. t \in Requesters => t # Loop
  BY RegistryAssumption DEF Requesters
<1>1. CASE CheckExists(t)
  <2>1. UNCHANGED <<table, version, changed, inserted, cache, video, budget>> /\ req[t].pc = "exists"
    BY <1>1 DEF CheckExists, tables, At
  <2>2. CASE Done(t)
    BY <2>1, <2>2, DoneKept, RegistryKept DEF Others
  <2>3. CASE Set(t, [req[t] EXCEPT !.pc = "look", !.looked = version])
    <3> DEFINE q == [req[t] EXCEPT !.pc = "look", !.looked = version]
    <3>1. q \in Requests /\ q.pc = "look" /\ q.then = req[t].then /\ q.op = req[t].op
      BY <1>0 DEF Requests, Pcs, OthersOK
    <3>2. Set(t, q)
      BY <2>3
    <3>3. req[t].op \in Adds /\ req[t].then = "guard" /\ t \in Requesters
      BY <1>0, <2>1 DEF Shape, Adds
    <3> HIDE DEF q
    <3>4. Shape(t, q)
      BY <1>a, <3>1, <3>3 DEF Shape, Listing
    <3> QED
      BY <2>1, <3>1, <3>2, <3>4, ShapesKept, RegistryKept DEF Others
  <2> QED
    BY <1>1, <2>2, <2>3 DEF CheckExists
<1>2. CASE Look(t)
  <2>1. UNCHANGED <<table, version, changed, inserted, cache, budget>> /\ req[t].pc = "look"
    BY <1>2 DEF Look, tables, At
  <2>2. CASE Move(t, "fetch") /\ UNCHANGED video
    BY <2>1, <2>2, MoveKept, RegistryKept DEF Others
  <2>3. CASE cache[StoreOf(t)] # None /\ Use(t, cache[StoreOf(t)].rows, cache[StoreOf(t)].version)
    <3>1. cache[StoreOf(t)].rows \in [Ids -> Row] /\ cache[StoreOf(t)].version \in Nat
      BY <1>0, <2>3, StoreThere DEF CacheOK, Lists
    <3>2. req' \in [Threads -> Requests] /\ Shapes'
      BY <2>1, <2>3, <3>1, UseKept
    <3>3. VideoOK'
      BY <1>0, <2>3, <3>1, UseOK DEF VideoOK
    <3> QED
      BY <2>1, <3>2, <3>3, RegistryKept DEF Others
  <2> QED
    BY <1>2, <2>2, <2>3 DEF Look
<1>3. CASE Fetch(t)
  <2>1. UNCHANGED <<table, version, changed, inserted, cache, video, budget>> /\ req[t].pc = "fetch"
    BY <1>3 DEF Fetch, tables, At
  <2> DEFINE q == [req[t] EXCEPT !.pc = "fill", !.rows = table, !.listed = version]
  <2>2. q \in Requests /\ q.pc = "fill" /\ q.then = req[t].then /\ q.op = req[t].op
    BY <1>0 DEF Requests, Pcs, OthersOK
  <2>3. Set(t, q)
    BY <1>3 DEF Fetch
  <2> HIDE DEF q
  <2>4. Shape(t, q)
    BY <1>0, <2>1, <2>2 DEF Shape, Listing
  <2> QED
    BY <2>1, <2>2, <2>3, <2>4, ShapesKept, RegistryKept DEF Others
<1>4. CASE Fill(t)
  <2>1. UNCHANGED <<table, version, changed, inserted, budget>> /\ req[t].pc = "fill"
    BY <1>4 DEF Fill, tables, At
  <2> DEFINE l == [rows |-> req[t].rows, version |-> req[t].listed]
  <2>2. cache' = [cache EXCEPT ![StoreOf(t)] = l] /\ Use(t, req[t].rows, req[t].listed)
    BY <1>4 DEF Fill
  <2>3. req[t].rows \in [Ids -> Row] /\ req[t].listed \in Nat /\ l \in Lists
    BY <1>0 DEF Requests, Lists
  <2> HIDE DEF l
  <2>4. req' \in [Threads -> Requests] /\ Shapes'
    BY <2>1, <2>2, <2>3, UseKept
  <2>5. VideoOK'
    BY <1>0, <2>2, <2>3, UseOK DEF VideoOK
  <2>6. \E s \in Stores, m \in Lists \cup {None} : cache' = [cache EXCEPT ![s] = m]
    BY <2>2, <2>3, StoreThere
  <2> QED
    BY <2>1, <2>4, <2>5, <2>6, RegistryKept DEF Others
<1>5. CASE Get(t)
  <2>1. UNCHANGED <<table, version, changed, inserted, cache, video, budget>> /\ req[t].pc = "get"
    BY <1>5 DEF Get, tables, At
  <2>2. PICK i \in req[t].ids : \/ Done(t)
                                \/ Set(t, [req[t] EXCEPT !.pc = "write", !.rows[i] = table[i], !.looked = version])
    BY <1>5 DEF Get
  <2>3. CASE Done(t)
    BY <2>1, <2>3, DoneKept, RegistryKept DEF Others
  <2>4. CASE Set(t, [req[t] EXCEPT !.pc = "write", !.rows[i] = table[i], !.looked = version])
    <3> DEFINE q == [req[t] EXCEPT !.pc = "write", !.rows[i] = table[i], !.looked = version]
    <3>1. i \in Ids
      BY <1>0 DEF Requests
    <3>2. [req[t].rows EXCEPT ![i] = table[i]] \in [Ids -> Row]
      BY <1>0, <3>1 DEF Requests, OthersOK
    <3>3. q = [req[t] EXCEPT !.pc = "write", !.rows = [req[t].rows EXCEPT ![i] = table[i]], !.looked = version]
      BY <1>0 DEF Requests
    <3>4. q \in Requests /\ q.pc = "write" /\ q.op = req[t].op
      BY <1>0, <3>2, <3>3 DEF Requests, Pcs, OthersOK
    <3>5. Set(t, q)
      BY <2>4
    <3> HIDE DEF q
    <3>6. req[t].op \in Patches /\ t \in Requesters
      BY <1>0, <2>1 DEF Shape
    <3>7. Shape(t, q)
      BY <1>a, <3>4, <3>6 DEF Shape, Listing
    <3> QED
      BY <2>1, <3>4, <3>5, <3>7, ShapesKept, RegistryKept DEF Others
  <2> QED
    BY <2>2, <2>3, <2>4
<1>6. CASE WriteRows(t)
  <2>1. UNCHANGED <<cache, video, budget>> /\ req[t].pc = "write"
    BY <1>6 DEF WriteRows, At
  <2>2. CASE Done(t) /\ UNCHANGED tables
    BY <2>1, <2>2, DoneKept, RegistryKept DEF Others, tables
  <2>3. CASE /\ table' = [i \in Ids |-> IF i \in req[t].ids THEN Written(t, i) ELSE table[i]]
             /\ version' = version + 1
             /\ changed' = [i \in Ids |-> IF i \in req[t].ids THEN version' ELSE changed[i]]
             /\ inserted' = IF Exists(table') \subseteq Exists(table) THEN inserted ELSE version'
             /\ Move(t, "invalidate")
    <3>1. req[t].op \in Adds \cup Patches \cup {"delete"} /\ t \in Requesters
      BY <1>0, <2>1 DEF Shape
    <3>2. \A i \in Ids : Written(t, i) \in Row
      BY <1>0, <3>1, WrittenOK
    <3>3. table' \in [Ids -> Row]
      BY <1>0, <2>3, <3>2 DEF OthersOK
    <3>4. version' \in Nat
      BY <1>0, <2>3 DEF OthersOK
    <3>5. changed' \in [Ids -> Nat] /\ inserted' \in Nat
      BY <1>0, <2>3, <3>4 DEF OthersOK
    <3>6. req' \in [Threads -> Requests] /\ Shapes'
      BY <1>a, <2>3, <3>1, MoveKept
    <3> QED
      BY <2>1, <2>3, <3>3, <3>5, <3>6, RegistryKept
  <2> QED
    BY <1>6, <2>2, <2>3 DEF WriteRows
<1>7. CASE Invalidate(t)
  <2>1. UNCHANGED <<table, version, changed, inserted, video, budget>> /\ req[t].pc = "invalidate"
    BY <1>7 DEF Invalidate, tables, At
  <2>2. t \in Requesters /\ Move(t, "notify") /\ cache' = [cache EXCEPT ![StoreOf(t)] = None]
    BY <1>0, <1>7, <2>1 DEF Shape, Invalidate
  <2>3. \E s \in Stores, m \in Lists \cup {None} : cache' = [cache EXCEPT ![s] = m]
    BY <2>2, StoreThere
  <2>4. req' \in [Threads -> Requests] /\ Shapes'
    BY <1>a, <2>2, MoveKept
  <2> QED
    BY <2>1, <2>3, <2>4, RegistryKept DEF Others
<1>8. CASE Notify(t)
  <2>1. UNCHANGED <<table, version, changed, inserted, budget>> /\ req[t].pc = "notify"
    BY <1>8 DEF Notify, tables, At
  <2> DEFINE l == [rows |-> table, version |-> version]
  <2>2. /\ t \in Requesters /\ Move(t, "raise") /\ cache' = [cache EXCEPT ![Video] = l]
        /\ video' = [video EXCEPT !.shown = Live(table)]
    BY <1>0, <1>8, <2>1 DEF Shape, Notify
  <2>3. l \in Lists
    BY <1>0 DEF Lists, OthersOK
  <2> HIDE DEF l
  <2>4. \E s \in Stores, m \in Lists \cup {None} : cache' = [cache EXCEPT ![s] = m]
    BY <2>2, <2>3, StoreThere
  <2>5. req' \in [Threads -> Requests] /\ Shapes'
    BY <1>a, <2>2, MoveKept
  <2>6. VideoOK'
    BY <1>0, <2>2, LiveOf DEF VideoOK
  <2> QED
    BY <2>1, <2>4, <2>5, <2>6, RegistryKept DEF Others
<1>9. CASE Raise(t)
  <2>1. UNCHANGED <<table, version, changed, inserted, cache, budget>> /\ req[t].pc = "raise"
    BY <1>9 DEF Raise, tables, At
  <2>2. VideoOK'
    <3>1. video' = [video EXCEPT !.flag = TRUE, !.missed = @ \/ req[Loop].op = "build"]
      BY <1>9 DEF Raise
    <3>2. (video.missed \/ req[Loop].op = "build") \in BOOLEAN
      OBVIOUS
    <3> QED
      BY <1>0, <3>1, <3>2 DEF VideoOK
  <2>3. CASE Done(t)
    BY <2>1, <2>2, <2>3, DoneKept, RegistryKept DEF Others
  <2>4. CASE Set(t, [Idle EXCEPT !.op = req[t].op, !.ids = req[t].ids, !.pc = "poll"])
    <3> DEFINE q == [Idle EXCEPT !.op = req[t].op, !.ids = req[t].ids, !.pc = "poll"]
    <3>1. q \in Requests /\ q.pc = "poll"
      BY <1>0, IdleShape DEF Requests, Pcs
    <3>2. Set(t, q) /\ t \in Requesters
      BY <1>0, <2>1, <2>4 DEF Shape
    <3> HIDE DEF q
    <3>3. Shape(t, q)
      BY <1>a, <3>1, <3>2 DEF Shape, Listing
    <3> QED
      BY <2>1, <2>2, <3>1, <3>2, <3>3, ShapesKept, RegistryKept DEF Others
  <2> QED
    BY <1>9, <2>3, <2>4 DEF Raise
<1>10. CASE PollStatus(t) \/ StopWaiting(t)
  <2>1. UNCHANGED <<table, version, changed, inserted, cache, video, budget>> /\ Done(t)
    BY <1>10 DEF PollStatus, StopWaiting, tables
  <2> QED
    BY <2>1, DoneKept, RegistryKept DEF Others
<1> QED
  BY <1>1, <1>2, <1>3, <1>4, <1>5, <1>6, <1>7, <1>8, <1>9, <1>10 DEF RegistryStep

LEMMA RegistryOtherTypes ==
  ASSUME RegistryInv,
         \/ \E t \in Threads : VideoFails(t)
         \/ Reload \/ StartFlow \/ UNCHANGED registryVars
  PROVE  RegistryInv'
<1>0. /\ req \in [Threads -> Requests] /\ OthersOK /\ CacheOK /\ VideoOK /\ RegistryTypeOK
      /\ Loop \in Threads /\ req[Loop] \in Requests
  BY TypesOf DEF RegistryInv, RegistryTypeOK, Threads
<1>1. ASSUME NEW t \in Threads, VideoFails(t) PROVE RegistryInv'
  <2>1. UNCHANGED <<table, version, changed, inserted, cache, video>> /\ Done(t)
    BY <1>1 DEF VideoFails, tables
  <2>2. budget' \in [{"request", "view", "ring", "fault"} -> Nat]
    BY <1>0, <1>1, SpendOK DEF VideoFails
  <2>3. OthersOK' /\ CacheOK' /\ VideoOK'
    BY <1>0, <2>1, <2>2 DEF OthersOK, CacheOK, VideoOK
  <2>4. req' \in [Threads -> Requests] /\ Shapes'
    BY <2>1, DoneKept
  <2> QED
    BY <2>3, <2>4 DEF RegistryInv, RegistryTypeOK, OthersOK, CacheOK, VideoOK
<1>2. CASE Reload
  <2>1. UNCHANGED <<table, version, changed, inserted, budget>>
    BY <1>2 DEF Reload, tables
  <2> DEFINE q == [Idle EXCEPT !.op = "build", !.pc = "look", !.then = "build"]
  <2>2. Set(Loop, q)
    BY <1>2 DEF Reload
  <2>3. q \in Requests /\ q.pc = "look" /\ q.op = "build" /\ q.then = "build"
    BY IdleShape DEF Requests, Pcs, Ops, Thens
  <2> HIDE DEF q
  <2>4. Shape(Loop, q)
    BY <2>3 DEF Shape, Listing
  <2>5. VideoOK'
    BY <1>0, <1>2 DEF Reload, VideoOK
  <2>6. \E s \in Stores, m \in Lists \cup {None} : cache' = [cache EXCEPT ![s] = m]
    BY <1>0, <1>2, StoreThere DEF Reload
  <2> QED
    BY <1>0, <2>1, <2>2, <2>3, <2>4, <2>5, <2>6, ShapesKept, RegistryKept DEF Others
<1>3. CASE StartFlow
  <2>1. UNCHANGED <<table, version, changed, inserted, cache, budget>> /\ Done(Loop)
    BY <1>3 DEF StartFlow, tables
  <2>2. VideoOK'
    <3>1. video' = [video EXCEPT !.playing = req[Loop].ids, !.flag = @ /\ req[Loop].ids = {}]
      BY <1>3 DEF StartFlow
    <3>2. req[Loop].ids \subseteq Ids /\ (video.flag /\ req[Loop].ids = {}) \in BOOLEAN
      BY <1>0 DEF Requests
    <3> QED
      BY <1>0, <3>1, <3>2 DEF VideoOK
  <2> QED
    BY <1>0, <2>1, <2>2, DoneKept, RegistryKept DEF Others
<1>4. CASE UNCHANGED registryVars
  BY <1>4 DEF registryVars, RegistryInv, RegistryTypeOK, Shapes
<1> QED
  BY <1>1, <1>2, <1>3, <1>4

LEMMA RegistryNextInv == RegistryInv /\ [RegistryNext]_registryVars => RegistryInv'
<1> SUFFICES ASSUME RegistryInv, [RegistryNext]_registryVars PROVE RegistryInv'
  OBVIOUS
<1>1. ASSUME NEW t \in Threads, RegistryStep(t) PROVE RegistryInv'
  BY <1>1, RegistryStepTypes, RegistryOtherTypes
<1> QED
  BY <1>1, RequestTypesKept, RegistryOtherTypes DEF RegistryNext

LEMMA RegistryInitInv == AdminInit => RegistryInv
<1> SUFFICES ASSUME AdminInit PROVE RegistryInv
  OBVIOUS
<1>1. RegistryInit
  BY DEF AdminInit
<1>2. \A t \in Threads : req[t] = Idle
  BY <1>1 DEF RegistryInit
<1>3. Shapes
  BY <1>2, IdleFits DEF Shapes
<1> QED
  BY <1>1, <1>3, RegistryInitTypes DEF RegistryInv

-----------------------------------------------------------------------------
(* A camera that has left the pipeline plays no more.                      *)

(* Between two reloads what plays is in the status; while a pipeline is    *)
(* being built nothing plays, and the status has what it is built from.    *)
Raising == \E u \in Requesters : req[u].pc = "raise"
DropInv ==
  /\ ~video.flag /\ ~video.missed /\ ~Raising => video.playing \subseteq video.shown
  /\ req[Loop].op = "build" => video.playing = {}
  /\ req[Loop].pc = "start" /\ ~video.missed /\ ~Raising => req[Loop].ids = video.shown

LEMMA DropKept ==
  ASSUME RegistryInv, DropInv, NEW t \in Threads, t # Loop, \A u \in Threads \ {t} : req'[u] = req[u],
         req[t].pc # "raise", video' = video
  PROVE  DropInv'
<1>1. req'[Loop] = req[Loop]
  BY DEF Threads
<1>2. Raising => Raising'
  <2>1. ASSUME NEW u \in Requesters, req[u].pc = "raise" PROVE req'[u].pc = "raise"
    BY <2>1 DEF Threads
  <2> QED
    BY <2>1 DEF Raising
<1> QED
  BY <1>1, <1>2 DEF DropInv

LEMMA DropUse ==
  ASSUME RegistryInv, DropInv, NEW t \in Threads, req[t].pc \in {"look", "fill"}, NEW list_, NEW ver,
         Use(t, list_, ver)
  PROVE  DropInv'
<1>1. /\ req[t] \in Requests /\ Shape(t, req[t]) /\ req \in [Threads -> Requests] /\ VideoOK /\ Loop \in Threads
  BY TypesOf DEF RegistryInv, RegistryTypeOK, Shapes, Threads
<1>2. \A u \in Threads \ {t} : req'[u] = req[u]
  BY <1>1 DEF Use, Done, Set
<1>3. CASE t # Loop
  <2>1. video' = video
    BY <1>1, <1>3 DEF Use, Shape, Listing
  <2> QED
    BY <1>2, <1>3, <2>1, DropKept
<1>4. CASE t = Loop
  <2> DEFINE live == Live(list_)
  <2>1. req[t].then = "build" /\ req[t].op = "build"
    BY <1>1, <1>4, RegistryAssumption DEF Shape, Listing, Requesters
  <2>2. video' = [video EXCEPT !.shown = live] /\ Set(t, [req[t] EXCEPT !.pc = "start", !.ids = live])
    BY <2>1 DEF Use
  <2> HIDE DEF live
  <2>3. req'[Loop] = [req[t] EXCEPT !.pc = "start", !.ids = live]
    BY <1>1, <1>4, <2>2 DEF Set
  <2>4. req'[Loop].ids = live /\ req'[Loop].op = "build"
    BY <1>1, <2>1, <2>3 DEF Requests
  <2>5. video'.shown = live /\ video'.playing = video.playing
    BY <1>1, <2>2 DEF VideoOK
  <2>6. video.playing = {}
    BY <1>4, <2>1 DEF DropInv
  <2> QED
    BY <2>4, <2>5, <2>6 DEF DropInv
<1> QED
  BY <1>3, <1>4

LEMMA DropNext ==
  ASSUME RegistryInv, DropInv, [RegistryNext]_registryVars
  PROVE  DropInv'
<1>1. /\ req \in [Threads -> Requests] /\ VideoOK /\ Loop \in Threads
      /\ \A t \in Threads : req[t] \in Requests /\ Shape(t, req[t])
  BY TypesOf DEF RegistryInv, RegistryTypeOK, Shapes, Threads
<1>a. Requesters \subseteq Threads /\ Loop \notin Requesters
  BY RegistryAssumption DEF Threads, Requesters
<1>2. ASSUME NEW t \in Threads, NEW r, Set(t, r), t # Loop, req[t].pc # "raise", video' = video PROVE DropInv'
  <2>1. \A u \in Threads \ {t} : req'[u] = req[u]
    BY <1>1, <1>2 DEF Set
  <2> QED
    BY <1>2, <2>1, DropKept
<1>3. ASSUME NEW t \in Threads, Request(t) \/ View(t) PROVE DropInv'
  <2>1. t # Loop /\ req[t].pc = "idle" /\ video' = video /\ \E r : Set(t, r)
    BY <1>3, RegistryAssumption DEF Request, View, Begin, Requesters, At
  <2> QED
    BY <1>2, <2>1
<1>4. ASSUME NEW t \in Threads, Look(t) \/ Fill(t) PROVE DropInv'
  <2>1. CASE Fill(t)
    BY <2>1, DropUse DEF Fill, At
  <2>2. CASE Look(t) /\ ~(Move(t, "fetch") /\ UNCHANGED video)
    BY <2>2, DropUse DEF Look, At
  <2>3. CASE Look(t) /\ Move(t, "fetch") /\ UNCHANGED video
    <3>1. CASE t # Loop
      BY <1>2, <2>3, <3>1 DEF Look, At, Move
    <3>2. CASE t = Loop
      <4>1. req' = [req EXCEPT ![t] = [req[t] EXCEPT !.pc = "fetch"]] /\ video' = video
        BY <2>3 DEF Move, Set
      <4>2. \A u \in Requesters : req'[u] = req[u]
        BY <1>1, <1>a, <3>2, <4>1
      <4>3. req'[Loop].pc = "fetch" /\ req'[Loop].op = req[Loop].op
        BY <1>1, <3>2, <4>1 DEF Requests
      <4> QED
        BY <4>1, <4>2, <4>3 DEF DropInv, Raising
    <3> QED
      BY <3>1, <3>2
  <2> QED
    BY <1>4, <2>1, <2>2, <2>3
<1>5. ASSUME NEW t \in Threads, Fetch(t) PROVE DropInv'
  <2>1. CASE t # Loop
    BY <1>2, <1>5, <2>1 DEF Fetch, At
  <2>2. CASE t = Loop
    <3>1. /\ req' = [req EXCEPT ![t] = [req[t] EXCEPT !.pc = "fill", !.rows = table, !.listed = version]]
          /\ video' = video
      BY <1>5 DEF Fetch, Set
    <3>2. \A u \in Requesters : req'[u] = req[u]
      BY <1>1, <1>a, <2>2, <3>1
    <3>3. req'[Loop].pc = "fill" /\ req'[Loop].op = req[Loop].op
      BY <1>1, <2>2, <3>1 DEF Requests
    <3> QED
      BY <3>1, <3>2, <3>3 DEF DropInv, Raising
  <2> QED
    BY <2>1, <2>2
<1>6. ASSUME NEW t \in Threads,
             CheckExists(t) \/ Get(t) \/ WriteRows(t) \/ Invalidate(t) \/ VideoFails(t) \/ PollStatus(t)
             \/ StopWaiting(t)
      PROVE  DropInv'
  <2>1. req[t].pc \in {"exists", "get", "write", "invalidate", "notify", "poll"} /\ video' = video
        /\ \E r : Set(t, r)
    BY <1>6 DEF CheckExists, Get, WriteRows, Invalidate, VideoFails, PollStatus, StopWaiting, Done, Move, At
  <2>2. t # Loop
    BY <1>1, <1>a, <2>1 DEF Shape
  <2> QED
    BY <1>2, <2>1, <2>2
<1>7. ASSUME NEW t \in Threads, Notify(t) PROVE DropInv'
  <2>1. /\ req[t].pc = "notify" /\ video' = [video EXCEPT !.shown = Live(table)]
        /\ req' = [req EXCEPT ![t] = [req[t] EXCEPT !.pc = "raise"]]
    BY <1>7 DEF Notify, At, Move, Set
  <2>2. t \in Requesters
    BY <1>1, <2>1 DEF Shape
  <2>3. req'[t].pc = "raise" /\ req'[Loop] = req[Loop]
    BY <1>1, <1>a, <2>1, <2>2 DEF Requests
  <2>4. Raising'
    BY <2>2, <2>3 DEF Raising
  <2>5. video'.playing = video.playing
    BY <1>1, <2>1 DEF VideoOK
  <2> QED
    BY <2>3, <2>4, <2>5 DEF DropInv
<1>8. ASSUME NEW t \in Threads, Raise(t) PROVE DropInv'
  <2>1. /\ req[t].pc = "raise" /\ \E r : Set(t, r)
        /\ video' = [video EXCEPT !.flag = TRUE, !.missed = @ \/ req[Loop].op = "build"]
    BY <1>8 DEF Raise, At, Done
  <2>2. t \in Requesters
    BY <1>1, <2>1 DEF Shape
  <2>3. req'[Loop] = req[Loop]
    BY <1>1, <1>a, <2>1, <2>2 DEF Set
  <2>4. /\ video'.flag = TRUE /\ video'.missed = (video.missed \/ req[Loop].op = "build")
        /\ video'.playing = video.playing
    BY <1>1, <2>1 DEF VideoOK
  <2>5. req[Loop].pc = "start" => req[Loop].op = "build"
    BY <1>1 DEF Shape
  <2> QED
    BY <2>3, <2>4, <2>5 DEF DropInv
<1>9. CASE Reload
  <2>1. /\ video.flag /\ video' = [video EXCEPT !.playing = {}, !.missed = FALSE]
        /\ req' = [req EXCEPT ![Loop] = [Idle EXCEPT !.op = "build", !.pc = "look", !.then = "build"]]
    BY <1>9 DEF Reload, Set
  <2>2. req'[Loop].pc = "look"
    BY <1>1, <2>1 DEF Idle
  <2>3. video'.playing = {}
    BY <1>1, <2>1 DEF VideoOK
  <2> QED
    BY <2>2, <2>3 DEF DropInv
<1>10. CASE StartFlow
  <2>1. /\ req[Loop].pc = "start" /\ req' = [req EXCEPT ![Loop] = Idle]
        /\ video' = [video EXCEPT !.playing = req[Loop].ids, !.flag = @ /\ req[Loop].ids = {}]
    BY <1>10 DEF StartFlow, At, Done, Set
  <2>2. req'[Loop].pc = "idle" /\ req'[Loop].op = "none" /\ \A u \in Requesters : req'[u] = req[u]
    BY <1>1, <1>a, <2>1 DEF Idle
  <2>3. video'.playing = req[Loop].ids /\ video'.shown = video.shown /\ video'.missed = video.missed
    BY <1>1, <2>1 DEF VideoOK
  <2>4. Raising' <=> Raising
    BY <2>2 DEF Raising
  <2> QED
    BY <2>1, <2>2, <2>3, <2>4 DEF DropInv
<1>11. CASE UNCHANGED registryVars
  BY <1>11 DEF registryVars, DropInv, Raising
<1> QED
  BY <1>3, <1>4, <1>5, <1>6, <1>7, <1>8, <1>9, <1>10, <1>11 DEF RegistryNext, RegistryStep

(* The API tells that a camera has left the pipeline when it plays no      *)
(* more, unless a reload came while a pipeline was being set up, or        *)
(* another request is between the two halves of its own                    *)
(* (reload_pipeline_drop_camera, request_reload, PipelineManager._loop).   *)
THEOREM DropCorrect == AdminSpec => []DropMeansGone
<1>1. AdminInit => DropInv
  <2> SUFFICES ASSUME AdminInit PROVE DropInv
    OBVIOUS
  <2>1. RegistryInit
    BY DEF AdminInit
  <2>2. video.playing = video.shown
    BY <2>1 DEF RegistryInit
  <2>3. req[Loop] = Idle
    BY <2>1 DEF RegistryInit, Threads
  <2>4. Idle.op = "none" /\ Idle.pc = "idle"
    BY DEF Idle
  <2> QED
    BY <2>2, <2>3, <2>4 DEF DropInv
<1>2. RegistryInv /\ DropInv /\ [AdminNext]_adminVars => (RegistryInv /\ DropInv)'
  BY RegistryMoves, RegistryNextInv, DropNext
<1>3. RegistryInv /\ DropInv => DropMeansGone
  <2> SUFFICES ASSUME DropInv, NEW t \in Requesters, Left(t), ~video.missed,
                      \A u \in Requesters : ~At(u, "raise")
               PROVE  req[t].ids \cap video.playing = {}
    BY DEF DropMeansGone
  <2>1. ~Raising /\ ~video.flag /\ req[t].ids \cap video.shown = {}
    BY DEF Raising, At, Left
  <2> QED
    BY <2>1 DEF DropInv
<1> QED
  BY <1>1, <1>2, <1>3, RegistryInitInv, PTL DEF AdminSpec

-----------------------------------------------------------------------------
(* Writes and what their requests have seen.                               *)

(* A list l read at version v, and what a request has seen of a table tb   *)
(* of version ver, whose rows changed at the versions ch and of which one  *)
(* was inserted at ins.                                                    *)
Saw(l, v, tb, ver, ch, ins) ==
  /\ v <= ver
  /\ \A i \in Ids : ch[i] <= v => l[i] = tb[i]
  /\ ins <= v => Exists(tb) \subseteq Exists(l)
Knows(r, tb, ver, ch, ins) ==
  /\ r.looked <= ver /\ r.listed <= ver
  /\ r.pc = "fill" => Saw(r.rows, r.listed, tb, ver, ch, ins)
  /\ r.op \in {"add", "batch", "import"} /\ r.then = "guard" /\ r.pc \in Listing \cup {"write"} =>
       \A i \in r.ids : ch[i] <= r.looked => tb[i] = Absent
  /\ r.op \in Adds /\ r.pc = "write" => r.then = "guard"
  /\ r.op \in Patches /\ r.pc = "write" =>
       \A i \in r.ids : ch[i] <= r.looked => tb[i] = r.rows[i] /\ tb[i] # Absent
  /\ r.op \in Adds /\ r.pc = "write" /\ ins <= r.listed =>
       Cardinality(Exists(tb) \cup r.ids) <= MaxStreams
Versions == inserted <= version /\ \A i \in Ids : changed[i] <= version
CacheSeen == \A s \in Stores : cache[s] # None =>
               Saw(cache[s].rows, cache[s].version, table, version, changed, inserted)
RequestsSeen == \A t \in Threads : Knows(req[t], table, version, changed, inserted)
SeenInv == Versions /\ CacheSeen /\ RequestsSeen

(* What a transaction does to the table.                                   *)
Later(tb, ver, ch, ins, tb2, ver2, ch2, ins2) ==
  /\ ver <= ver2
  /\ \A i \in Ids : ch2[i] <= ver => ch[i] = ch2[i] /\ tb2[i] = tb[i]
  /\ ins2 <= ver => ins2 = ins /\ Exists(tb2) \subseteq Exists(tb)

LEMMA SawLater ==
  ASSUME NEW l, NEW v \in Nat, NEW tb, NEW ver \in Nat, NEW ch \in [Ids -> Nat], NEW ins \in Nat,
         NEW tb2, NEW ver2 \in Nat, NEW ch2 \in [Ids -> Nat], NEW ins2 \in Nat,
         Saw(l, v, tb, ver, ch, ins), Later(tb, ver, ch, ins, tb2, ver2, ch2, ins2)
  PROVE  Saw(l, v, tb2, ver2, ch2, ins2)
<1>1. v <= ver2 /\ v <= ver
  BY DEF Saw, Later
<1>2. ASSUME NEW i \in Ids, ch2[i] <= v PROVE l[i] = tb2[i]
  <2>1. ch2[i] \in Nat /\ ch2[i] <= ver
    BY <1>1, <1>2
  <2> QED
    BY <1>2, <2>1 DEF Saw, Later
<1>3. ASSUME ins2 <= v PROVE Exists(tb2) \subseteq Exists(l)
  <2>1. ins2 <= ver
    BY <1>1, <1>3
  <2>2. ins <= v /\ Exists(tb2) \subseteq Exists(tb)
    BY <1>3, <2>1 DEF Later
  <2> QED
    BY <2>2 DEF Saw
<1> QED
  BY <1>1, <1>2, <1>3 DEF Saw

LEMMA ExistsIn == \A tb : Exists(tb) \subseteq Ids
BY DEF Exists

LEMMA KnowsLater ==
  ASSUME NEW r \in Requests, NEW tb, NEW ver \in Nat, NEW ch \in [Ids -> Nat], NEW ins \in Nat,
         NEW tb2, NEW ver2 \in Nat, NEW ch2 \in [Ids -> Nat], NEW ins2 \in Nat,
         Knows(r, tb, ver, ch, ins), Later(tb, ver, ch, ins, tb2, ver2, ch2, ins2)
  PROVE  Knows(r, tb2, ver2, ch2, ins2)
<1>0. r.looked \in Nat /\ r.listed \in Nat /\ r.ids \subseteq Ids
  BY DEF Requests
<1>1. r.looked <= ver /\ r.listed <= ver /\ ver <= ver2
  BY DEF Knows, Later
<1>2. r.looked <= ver2 /\ r.listed <= ver2
  BY <1>0, <1>1
<1>3. r.pc = "fill" => Saw(r.rows, r.listed, tb2, ver2, ch2, ins2)
  <2>1. ASSUME r.pc = "fill", NEW l, l = r.rows, NEW v, v = r.listed PROVE Saw(l, v, tb2, ver2, ch2, ins2)
    <3>1. Saw(l, v, tb, ver, ch, ins)
      BY <2>1, Zenon DEF Knows
    <3> QED
      BY <1>0, <2>1, <3>1, SawLater
  <2> QED
    BY <2>1, Zenon
<1>4. ASSUME NEW i \in Ids, ch2[i] <= r.looked PROVE ch[i] <= r.looked /\ tb2[i] = tb[i]
  <2>1. ch2[i] \in Nat /\ ch2[i] <= ver
    BY <1>0, <1>1, <1>4
  <2> QED
    BY <1>4, <2>1 DEF Later
<1>5. ASSUME r.op \in Adds, r.pc = "write", ins2 <= r.listed PROVE Cardinality(Exists(tb2) \cup r.ids) <= MaxStreams
  <2>1. ins2 <= ver
    BY <1>0, <1>1, <1>5
  <2>2. ins2 = ins /\ Exists(tb2) \cup r.ids \subseteq Exists(tb) \cup r.ids
    BY <2>1 DEF Later
  <2>3. Cardinality(Exists(tb) \cup r.ids) <= MaxStreams
    BY <1>5, <2>2 DEF Knows
  <2>4. IsFiniteSet(Exists(tb) \cup r.ids)
    BY <1>0, ExistsIn, RegistryAssumption, FS_Subset
  <2>5. /\ Cardinality(Exists(tb2) \cup r.ids) <= Cardinality(Exists(tb) \cup r.ids)
        /\ Cardinality(Exists(tb2) \cup r.ids) \in Nat /\ Cardinality(Exists(tb) \cup r.ids) \in Nat
    BY <2>2, <2>4, FS_Subset, FS_CardinalityType
  <2> QED
    BY <2>3, <2>5, RegistryAssumption
<1>6. r.op \in {"add", "batch", "import"} /\ r.then = "guard" /\ r.pc \in Listing \cup {"write"} =>
       \A i \in r.ids : ch2[i] <= r.looked => tb2[i] = Absent
  BY <1>0, <1>4 DEF Knows
<1>7. r.op \in Patches /\ r.pc = "write" =>
       \A i \in r.ids : ch2[i] <= r.looked => tb2[i] = r.rows[i] /\ tb2[i] # Absent
  BY <1>0, <1>4 DEF Knows
<1>8. r.op \in Adds /\ r.pc = "write" => r.then = "guard"
  BY DEF Knows
<1> QED
  BY <1>2, <1>3, <1>5, <1>6, <1>7, <1>8 DEF Knows

(* Steps that leave the table as it is.                                    *)
LEMMA SeenKept ==
  ASSUME RegistryInv, SeenInv, UNCHANGED <<table, version, changed, inserted>>,
         NEW t \in Threads, NEW r, Set(t, r), Knows(r, table, version, changed, inserted)
  PROVE  RequestsSeen' /\ Versions'
<1>1. req \in [Threads -> Requests]
  BY DEF RegistryInv, RegistryTypeOK
<1>2. ASSUME NEW u \in Threads, NEW q, q = req'[u] PROVE Knows(q, table, version, changed, inserted)
  <2>1. q = r \/ q = req[u]
    BY <1>1, <1>2 DEF Set
  <2> QED
    BY <2>1, Zenon DEF SeenInv, RequestsSeen
<1>3. ASSUME NEW u \in Threads PROVE Knows(req[u], table, version, changed, inserted)'
  BY <1>2, Zenon
<1> QED
  BY <1>3 DEF RequestsSeen, Versions, SeenInv

LEMMA CacheKept ==
  ASSUME RegistryInv, SeenInv, UNCHANGED <<table, version, changed, inserted>>,
         \/ cache' = cache
         \/ \E s \in Stores : cache' = [cache EXCEPT ![s] = None]
         \/ \E s \in Stores : \E l, v : /\ cache' = [cache EXCEPT ![s] = [rows |-> l, version |-> v]]
                                    /\ Saw(l, v, table, version, changed, inserted)
  PROVE  CacheSeen'
<1>1. ASSUME NEW s \in Stores, NEW l, NEW v, cache' = [cache EXCEPT ![s] = [rows |-> l, version |-> v]],
             Saw(l, v, table, version, changed, inserted), NEW u \in Stores, NEW e, e = cache'[u], e # None
      PROVE  Saw(e.rows, e.version, table, version, changed, inserted)
  <2>1. e = [rows |-> l, version |-> v] \/ e = cache[u]
    BY <1>1
  <2>2. CASE e = [rows |-> l, version |-> v]
    <3>1. e.rows = l /\ e.version = v
      BY <2>2
    <3> QED
      BY <1>1, <3>1, Zenon
  <2>3. CASE e = cache[u]
    BY <1>1, <2>3, Zenon DEF SeenInv, CacheSeen
  <2> QED
    BY <2>1, <2>2, <2>3
<1>2. ASSUME NEW s \in Stores, cache' = [cache EXCEPT ![s] = None], NEW u \in Stores, NEW e, e = cache'[u], e # None
      PROVE  Saw(e.rows, e.version, table, version, changed, inserted)
  <2>1. e = cache[u]
    BY <1>2
  <2> QED
    BY <1>2, <2>1, Zenon DEF SeenInv, CacheSeen
<1>3. ASSUME cache' = cache, NEW u \in Stores, NEW e, e = cache'[u], e # None
      PROVE  Saw(e.rows, e.version, table, version, changed, inserted)
  <2>1. e = cache[u]
    BY <1>3
  <2> QED
    BY <1>3, <2>1, Zenon DEF SeenInv, CacheSeen
<1>4. ASSUME NEW u \in Stores, NEW e, e = cache'[u], e # None
      PROVE  Saw(e.rows, e.version, table, version, changed, inserted)
  BY <1>1, <1>2, <1>3, <1>4
<1>5. ASSUME NEW u \in Stores, cache'[u] # None
      PROVE  Saw(cache[u].rows, cache[u].version, table, version, changed, inserted)'
  BY <1>4, <1>5, Zenon
<1> QED
  BY <1>5, Zenon DEF CacheSeen

LEMMA OpsApart ==
  /\ Adds \cap Patches = {} /\ "build" \notin Adds \cup Patches /\ "view" \notin Adds \cup Patches
  /\ "none" \notin Adds \cup Patches /\ "delete" \notin Adds \cup Patches
  /\ {"add", "batch", "import"} \subseteq Adds
BY DEF Adds, Patches

LEMMA IdleKnows ==
  ASSUME RegistryInv
  PROVE  Knows(Idle, table, version, changed, inserted)
<1>1. version \in Nat
  BY DEF RegistryInv, RegistryTypeOK
<1> QED
  BY <1>1 DEF Knows, Idle, Listing

LEMMA UseSeen ==
  ASSUME RegistryInv, SeenInv, UNCHANGED <<table, version, changed, inserted>>,
         NEW t \in Threads, req[t].pc \in {"look", "fill"}, NEW l \in [Ids -> Row], NEW v \in Nat,
         Saw(l, v, table, version, changed, inserted), Use(t, l, v)
  PROVE  RequestsSeen' /\ Versions'
<1> DEFINE r    == req[t]
           new  == NewIds(t, Exists(l))
           live == Live(l)
<1>0. /\ r \in Requests /\ Shape(t, r) /\ Knows(r, table, version, changed, inserted) /\ r.pc \in Listing
      /\ version \in Nat /\ inserted \in Nat
  BY DEF RegistryInv, RegistryTypeOK, Shapes, SeenInv, RequestsSeen, Listing
<1>1. \/ Done(t)
      \/ r.then = "plan" /\ Set(t, [r EXCEPT !.pc = "look", !.then = "guard", !.ids = new, !.looked = v])
      \/ r.then = "guard" /\ Fits(Exists(l), r.ids) /\ Set(t, [r EXCEPT !.pc = "write", !.listed = v])
      \/ r.then = "build" /\ Set(t, [r EXCEPT !.pc = "start", !.ids = live])
  BY DEF Use
<1>2. new \subseteq Ids \ Exists(l) /\ v <= version
  BY NewIdsOf DEF Saw
<1> HIDE DEF r, new, live
<1>3. CASE Done(t)
  BY <1>3, IdleKnows, SeenKept DEF Done
<1>4. CASE r.then = "plan" /\ Set(t, [r EXCEPT !.pc = "look", !.then = "guard", !.ids = new, !.looked = v])
  <2> DEFINE q == [r EXCEPT !.pc = "look", !.then = "guard", !.ids = new, !.looked = v]
  <2>1. q.pc = "look" /\ q.ids = new /\ q.looked = v /\ q.listed = r.listed
    BY <1>0 DEF Requests
  <2>2. Set(t, q)
    BY <1>4
  <2> HIDE DEF q
  <2>3. ASSUME NEW i \in new, changed[i] <= v PROVE table[i] = Absent
    BY <1>2, <2>3 DEF Saw, Exists
  <2>4. Knows(q, table, version, changed, inserted)
    BY <1>0, <1>2, <2>1, <2>3 DEF Knows
  <2> QED
    BY <2>2, <2>4, SeenKept
<1>5. CASE r.then = "guard" /\ Fits(Exists(l), r.ids) /\ Set(t, [r EXCEPT !.pc = "write", !.listed = v])
  <2> DEFINE q == [r EXCEPT !.pc = "write", !.listed = v]
  <2>1. q.pc = "write" /\ q.op = r.op /\ q.then = r.then /\ q.ids = r.ids /\ q.looked = r.looked /\ q.listed = v
    BY <1>0 DEF Requests
  <2>2. Set(t, q)
    BY <1>5
  <2> HIDE DEF q
  <2>3. r.op \in Adds /\ r.op \notin Patches
    BY <1>0, <1>5, OpsApart DEF Shape
  <2>4. inserted <= v => Cardinality(Exists(table) \cup r.ids) <= MaxStreams
    <3>1. ASSUME inserted <= v PROVE Cardinality(Exists(table) \cup r.ids) <= MaxStreams
      <4>1. Exists(table) \cup r.ids \subseteq Exists(l) \cup r.ids
        BY <3>1 DEF Saw
      <4>2. IsFiniteSet(Exists(l) \cup r.ids)
        BY <1>0, ExistsIn, RegistryAssumption, FS_Subset DEF Requests
      <4>3. /\ Cardinality(Exists(table) \cup r.ids) <= Cardinality(Exists(l) \cup r.ids)
            /\ Cardinality(Exists(table) \cup r.ids) \in Nat /\ Cardinality(Exists(l) \cup r.ids) \in Nat
        BY <4>1, <4>2, FS_Subset, FS_CardinalityType
      <4>4. Cardinality(Exists(l) \cup r.ids) <= MaxStreams
        BY <1>5 DEF Fits
      <4> QED
        BY <4>3, <4>4, RegistryAssumption
    <3> QED
      BY <3>1
  <2>5. r.op \in {"add", "batch", "import"} => \A i \in r.ids : changed[i] <= r.looked => table[i] = Absent
    BY <1>0, <1>5 DEF Knows
  <2>6. Knows(q, table, version, changed, inserted)
    BY <1>0, <1>2, <1>5, <2>1, <2>3, <2>4, <2>5 DEF Knows
  <2> QED
    BY <2>2, <2>6, SeenKept
<1>6. CASE r.then = "build" /\ Set(t, [r EXCEPT !.pc = "start", !.ids = live])
  <2> DEFINE q == [r EXCEPT !.pc = "start", !.ids = live]
  <2>1. q.pc = "start" /\ q.looked = r.looked /\ q.listed = r.listed
    BY <1>0 DEF Requests
  <2>2. Set(t, q)
    BY <1>6
  <2> HIDE DEF q
  <2>4. Knows(q, table, version, changed, inserted)
    BY <1>0, <2>1 DEF Knows, Listing
  <2> QED
    BY <2>2, <2>4, SeenKept
<1> QED
  BY <1>1, <1>3, <1>4, <1>5, <1>6

LEMMA SeenStill ==
  ASSUME RegistryInv, SeenInv, NEW t \in Threads,
         \/ Request(t) \/ View(t) \/ CheckExists(t) \/ Look(t) \/ Fetch(t) \/ Fill(t)
         \/ Get(t) \/ Invalidate(t) \/ Notify(t) \/ Raise(t) \/ VideoFails(t)
         \/ PollStatus(t) \/ StopWaiting(t)
  PROVE  SeenInv'
<1>0. /\ req[t] \in Requests /\ Shape(t, req[t]) /\ Knows(req[t], table, version, changed, inserted)
      /\ OthersOK /\ CacheOK
  BY TypesOf DEF RegistryInv, RegistryTypeOK, Shapes, SeenInv, RequestsSeen
<1>1. UNCHANGED <<table, version, changed, inserted>>
  BY DEF Request, View, Begin, CheckExists, Look, Fetch, Fill, Get, Invalidate, Notify, Raise, VideoFails,
         PollStatus, StopWaiting, tables
<1>2. Saw(table, version, table, version, changed, inserted)
  BY <1>0 DEF Saw, OthersOK
<1>3. ASSUME NEW r, Set(t, r), Knows(r, table, version, changed, inserted) PROVE RequestsSeen' /\ Versions'
  BY <1>1, <1>3, SeenKept
<1>4. ASSUME Done(t) PROVE RequestsSeen' /\ Versions'
  BY <1>3, <1>4, IdleKnows DEF Done
<1>5. ASSUME cache' = cache, RequestsSeen', Versions' PROVE SeenInv'
  BY <1>1, <1>5, CacheKept DEF SeenInv
<1>6. ASSUME NEW pc, Move(t, pc), pc \notin {"fill", "write"}, pc \in Listing => req[t].pc \in Listing
      PROVE  RequestsSeen' /\ Versions'
  <2> DEFINE q == [req[t] EXCEPT !.pc = pc]
  <2>1. /\ q.pc = pc /\ q.op = req[t].op /\ q.then = req[t].then /\ q.ids = req[t].ids
        /\ q.looked = req[t].looked /\ q.listed = req[t].listed
    BY <1>0 DEF Requests
  <2>2. Set(t, q)
    BY <1>6 DEF Move
  <2> HIDE DEF q
  <2>3. Knows(q, table, version, changed, inserted)
    BY <1>0, <1>6, <2>1 DEF Knows
  <2> QED
    BY <1>3, <2>2, <2>3
<1>a. ASSUME NEW op, NEW ids, NEW pc, NEW then, Begin(t, op, ids, pc, then),
             \/ pc \in {"exists", "get"} \/ (pc = "look" /\ (op = "put" \/ then # "guard"))
             \/ (pc = "write" /\ op = "delete")
      PROVE  SeenInv'
  <2> DEFINE q == [Idle EXCEPT !.op = op, !.ids = ids, !.pc = pc, !.then = then]
  <2>2. Set(t, q) /\ cache' = cache
    BY <1>a DEF Begin
  <2>3. q.pc = pc /\ q.op = op /\ q.then = then /\ q.looked = 0 /\ q.listed = 0
    BY DEF Idle
  <2> HIDE DEF q
  <2>4. Knows(q, table, version, changed, inserted)
    BY <1>0, <1>a, <2>3, OpsApart DEF Knows, OthersOK, Listing
  <2> QED
    BY <1>3, <1>5, <2>2, <2>4
<1>7. CASE Request(t) \/ View(t)
  <2>1. \/ \E i : Begin(t, "put", {i}, "look", "guard")
        \/ \E i : Begin(t, "add", {i}, "exists", "guard")
        \/ \E i, op : Begin(t, op, {i}, "get", "view")
        \/ \E i : Begin(t, "delete", {i}, "write", "view")
        \/ \E op : Begin(t, op, {}, "look", "plan")
        \/ Begin(t, "view", {}, "look", "view")
    BY <1>7 DEF Request, View
  <2> QED
    BY <1>a, <2>1
<1>8. CASE CheckExists(t)
  <2>1. cache' = cache /\ req[t].pc = "exists"
    BY <1>8 DEF CheckExists, At
  <2>2. CASE Done(t)
    BY <1>4, <1>5, <2>1, <2>2
  <2>3. CASE ~Done(t)
    <3> DEFINE q == [req[t] EXCEPT !.pc = "look", !.looked = version]
    <3>1. Set(t, q) /\ \A i \in req[t].ids : table[i] = Absent
      BY <1>8, <2>3 DEF CheckExists
    <3>2. q.pc = "look" /\ q.ids = req[t].ids /\ q.looked = version /\ q.listed = req[t].listed
      BY <1>0 DEF Requests
    <3> HIDE DEF q
    <3>3. Knows(q, table, version, changed, inserted)
      BY <1>0, <3>1, <3>2 DEF Knows, OthersOK
    <3> QED
      BY <1>3, <1>5, <2>1, <3>1, <3>3
  <2> QED
    BY <2>2, <2>3
<1>9. CASE Look(t)
  <2>1. cache' = cache /\ req[t].pc = "look"
    BY <1>9 DEF Look, At
  <2>2. CASE Move(t, "fetch")
    BY <1>5, <1>6, <2>1, <2>2 DEF Listing
  <2>3. CASE cache[StoreOf(t)] # None /\ Use(t, cache[StoreOf(t)].rows, cache[StoreOf(t)].version)
    <3>1. cache[StoreOf(t)].rows \in [Ids -> Row] /\ cache[StoreOf(t)].version \in Nat
      BY <1>0, <2>3, StoreThere DEF CacheOK, Lists
    <3>2. Saw(cache[StoreOf(t)].rows, cache[StoreOf(t)].version, table, version, changed, inserted)
      BY <2>3, StoreThere DEF SeenInv, CacheSeen
    <3>3. RequestsSeen' /\ Versions'
      BY <1>1, <2>1, <2>3, <3>1, <3>2, UseSeen
    <3> QED
      BY <1>5, <2>1, <3>3
  <2> QED
    BY <1>9, <2>2, <2>3 DEF Look
<1>10. CASE Fetch(t)
  <2> DEFINE q == [req[t] EXCEPT !.pc = "fill", !.rows = table, !.listed = version]
  <2>1. Set(t, q) /\ cache' = cache /\ req[t].pc \in Listing
    BY <1>10 DEF Fetch, At, Listing
  <2>2. /\ q.pc = "fill" /\ q.rows = table /\ q.listed = version /\ q.looked = req[t].looked
        /\ q.op = req[t].op /\ q.then = req[t].then /\ q.ids = req[t].ids
    BY <1>0 DEF Requests
  <2> HIDE DEF q
  <2>3. Knows(q, table, version, changed, inserted)
    BY <1>0, <1>2, <2>1, <2>2 DEF Knows, OthersOK
  <2> QED
    BY <1>3, <1>5, <2>1, <2>3
<1>11. CASE Fill(t)
  <2>1. /\ cache' = [cache EXCEPT ![StoreOf(t)] = [rows |-> req[t].rows, version |-> req[t].listed]]
        /\ Use(t, req[t].rows, req[t].listed) /\ req[t].pc = "fill"
    BY <1>11 DEF Fill, At
  <2>2. Saw(req[t].rows, req[t].listed, table, version, changed, inserted)
    BY <1>0, <2>1 DEF Knows
  <2>3. req[t].rows \in [Ids -> Row] /\ req[t].listed \in Nat
    BY <1>0 DEF Requests
  <2>4. RequestsSeen' /\ Versions'
    BY <1>1, <2>1, <2>2, <2>3, UseSeen
  <2>5. CacheSeen'
    BY <1>1, <2>1, <2>2, StoreThere, CacheKept
  <2> QED
    BY <2>4, <2>5 DEF SeenInv
<1>12. CASE Get(t)
  <2>1. req[t].pc = "get" /\ cache' = cache
    BY <1>12 DEF Get, At
  <2>2. PICK i \in req[t].ids :
          \/ Done(t)
          \/ /\ table[i] # Absent
             /\ Set(t, [req[t] EXCEPT !.pc = "write", !.rows[i] = table[i], !.looked = version])
    BY <1>12 DEF Get
  <2>3. CASE Done(t)
    BY <1>4, <1>5, <2>1, <2>3
  <2>4. CASE /\ table[i] # Absent
             /\ Set(t, [req[t] EXCEPT !.pc = "write", !.rows[i] = table[i], !.looked = version])
    <3> DEFINE q == [req[t] EXCEPT !.pc = "write", !.rows[i] = table[i], !.looked = version]
    <3>1. req[t].op \in Patches /\ req[t].op \notin Adds /\ req[t].ids = {i} /\ i \in Ids
      BY <1>0, <2>1, OpsApart DEF Shape, Requests
    <3>2. /\ q.pc = "write" /\ q.op = req[t].op /\ q.ids = req[t].ids /\ q.looked = version
          /\ q.listed = req[t].listed /\ q.rows[i] = table[i]
      BY <1>0, <3>1 DEF Requests
    <3>3. Set(t, q)
      BY <2>4
    <3> HIDE DEF q
    <3>4. Knows(q, table, version, changed, inserted)
      BY <1>0, <2>4, <3>1, <3>2, OpsApart DEF Knows, OthersOK
    <3> QED
      BY <1>3, <1>5, <2>1, <3>3, <3>4
  <2> QED
    BY <2>2, <2>3, <2>4
<1>13. CASE Invalidate(t)
  <2>1. Move(t, "notify") /\ cache' = [cache EXCEPT ![StoreOf(t)] = None]
    BY <1>13 DEF Invalidate
  <2>2. CacheSeen'
    BY <1>1, <2>1, StoreThere, CacheKept
  <2>3. RequestsSeen' /\ Versions'
    BY <1>6, <2>1 DEF Listing
  <2> QED
    BY <2>2, <2>3 DEF SeenInv
<1>14. CASE Notify(t)
  <2>1. Move(t, "raise") /\ cache' = [cache EXCEPT ![Video] = [rows |-> table, version |-> version]]
    BY <1>14 DEF Notify
  <2>2. CacheSeen'
    BY <1>1, <1>2, <2>1, StoreThere, CacheKept
  <2>3. RequestsSeen' /\ Versions'
    BY <1>6, <2>1 DEF Listing
  <2> QED
    BY <2>2, <2>3 DEF SeenInv
<1>15. CASE Raise(t)
  <2>1. cache' = cache
    BY <1>15 DEF Raise
  <2>2. CASE Done(t)
    BY <1>4, <1>5, <2>1, <2>2
  <2>3. CASE ~Done(t)
    <3> DEFINE q == [Idle EXCEPT !.op = req[t].op, !.ids = req[t].ids, !.pc = "poll"]
    <3>1. Set(t, q)
      BY <1>15, <2>3 DEF Raise
    <3>2. q.pc = "poll" /\ q.looked = 0 /\ q.listed = 0
      BY DEF Idle
    <3> HIDE DEF q
    <3>3. Knows(q, table, version, changed, inserted)
      BY <1>0, <3>2 DEF Knows, Listing, OthersOK
    <3> QED
      BY <1>3, <1>5, <2>1, <3>1, <3>3
  <2> QED
    BY <2>2, <2>3
<1>16. CASE VideoFails(t) \/ PollStatus(t) \/ StopWaiting(t)
  BY <1>4, <1>5, <1>16 DEF VideoFails, PollStatus, StopWaiting
<1> QED
  BY <1>7, <1>8, <1>9, <1>10, <1>11, <1>12, <1>13, <1>14, <1>15, <1>16

LEMMA WriteLater ==
  ASSUME RegistryInv, Versions, NEW t \in Threads, WriteRows(t), ~Done(t)
  PROVE  /\ Later(table, version, changed, inserted, table', version', changed', inserted')
         /\ Versions'
<1>0. OthersOK /\ req[t] \in Requests
  BY TypesOf DEF RegistryInv, RegistryTypeOK
<1>1. /\ table' = [i \in Ids |-> IF i \in req[t].ids THEN Written(t, i) ELSE table[i]]
      /\ version' = version + 1
      /\ changed' = [i \in Ids |-> IF i \in req[t].ids THEN version' ELSE changed[i]]
      /\ inserted' = IF Exists(table') \subseteq Exists(table) THEN inserted ELSE version'
  BY DEF WriteRows
<1>2. version \in Nat /\ changed \in [Ids -> Nat] /\ inserted \in Nat
  BY <1>0 DEF OthersOK
<1>3. version <= version'
  BY <1>1, <1>2
<1>4. ASSUME NEW i \in Ids, changed'[i] <= version PROVE changed[i] = changed'[i] /\ table'[i] = table[i]
  <2>1. i \notin req[t].ids
    BY <1>1, <1>2, <1>4
  <2> QED
    BY <1>1, <2>1
<1>5. inserted' <= version => inserted' = inserted /\ Exists(table') \subseteq Exists(table)
  BY <1>1, <1>2
<1>6. Versions'
  <2>1. \A i \in Ids : changed'[i] <= version'
    BY <1>1, <1>2 DEF Versions
  <2>2. inserted' <= version'
    BY <1>1, <1>2 DEF Versions
  <2> QED
    BY <2>1, <2>2 DEF Versions
<1> QED
  BY <1>3, <1>4, <1>5, <1>6 DEF Later

LEMMA WriteSeen ==
  ASSUME RegistryInv, SeenInv, NEW t \in Threads, WriteRows(t)
  PROVE  SeenInv'
<1>0. /\ req[t] \in Requests /\ OthersOK /\ CacheOK /\ req \in [Threads -> Requests] /\ cache' = cache
      /\ OthersOK' /\ \A u \in Threads : Knows(req[u], table, version, changed, inserted)
  <2>1. RegistryInv'
    BY RegistryStepTypes, RegistryOtherTypes DEF RegistryStep
  <2> QED
    BY <2>1, TypesOf DEF RegistryInv, RegistryTypeOK, WriteRows, SeenInv, RequestsSeen, OthersOK
<1>1. CASE Done(t)
  <2>1. UNCHANGED <<table, version, changed, inserted>>
    <3>1. Idle.pc = "idle" /\ [req[t] EXCEPT !.pc = "invalidate"].pc = "invalidate"
      BY <1>0 DEF Idle, Requests
    <3>2. ~Move(t, "invalidate")
      BY <1>0, <1>1, <3>1 DEF Done, Move, Set
    <3> QED
      BY <3>2 DEF WriteRows, tables
  <2>2. RequestsSeen' /\ Versions'
    BY <1>1, <2>1, IdleKnows, SeenKept DEF Done
  <2> QED
    BY <1>0, <2>1, <2>2, CacheKept DEF SeenInv
<1>2. CASE ~Done(t)
  <2>1. Later(table, version, changed, inserted, table', version', changed', inserted') /\ Versions'
    BY <1>2, WriteLater DEF SeenInv
  <2>2. version \in Nat /\ changed \in [Ids -> Nat] /\ inserted \in Nat
    BY <1>0 DEF OthersOK
  <2>3. version' \in Nat /\ changed' \in [Ids -> Nat] /\ inserted' \in Nat
    BY <1>0 DEF OthersOK
  <2>4. Set(t, [req[t] EXCEPT !.pc = "invalidate"])
    BY <1>2 DEF WriteRows, Move
  <2>5. ASSUME NEW tb, tb = table', NEW ver, ver = version', NEW ch, ch = changed', NEW ins, ins = inserted'
        PROVE  /\ \A u \in Threads : \A e : e = req'[u] => Knows(e, tb, ver, ch, ins)
               /\ \A s \in Stores : cache[s] # None => Saw(cache[s].rows, cache[s].version, tb, ver, ch, ins)
    <3>1. Later(table, version, changed, inserted, tb, ver, ch, ins)
      BY <2>1, <2>5, Zenon
    <3>2. ver \in Nat /\ ch \in [Ids -> Nat] /\ ins \in Nat
      BY <2>3, <2>5
    <3>3. ASSUME NEW u \in Threads PROVE Knows(req[u], tb, ver, ch, ins)
      <4>1. req[u] \in Requests /\ Knows(req[u], table, version, changed, inserted)
        BY <1>0
      <4> QED
        BY <2>2, <3>1, <3>2, <4>1, KnowsLater
    <3>4. ASSUME NEW u \in Threads, NEW e, e = req'[u] PROVE Knows(e, tb, ver, ch, ins)
      <4>1. CASE u # t
        <5>1. e = req[u]
          BY <1>0, <2>4, <3>4, <4>1 DEF Set
        <5> QED
          BY <3>3, <5>1, Zenon
      <4>2. CASE u = t
        <5>1. e = [req[t] EXCEPT !.pc = "invalidate"]
          BY <1>0, <2>4, <3>4, <4>2 DEF Set
        <5>2. e.pc = "invalidate" /\ e.looked = req[t].looked /\ e.listed = req[t].listed
          BY <1>0, <5>1 DEF Requests
        <5>3. req[t].looked <= ver /\ req[t].listed <= ver
          BY <3>3 DEF Knows
        <5> QED
          BY <5>2, <5>3 DEF Knows, Listing
      <4> QED
        BY <4>1, <4>2
    <3>5. ASSUME NEW s \in Stores, cache[s] # None
          PROVE  Saw(cache[s].rows, cache[s].version, tb, ver, ch, ins)
      <4>1. Saw(cache[s].rows, cache[s].version, table, version, changed, inserted)
        BY <3>5 DEF SeenInv, CacheSeen
      <4>2. cache[s].version \in Nat
        BY <1>0, <3>5 DEF CacheOK, Lists
      <4> QED
        BY <2>2, <3>1, <3>2, <4>1, <4>2, SawLater
    <3> QED
      BY <3>4, <3>5
  <2>6. ASSUME NEW u \in Threads PROVE Knows(req[u], table, version, changed, inserted)'
    BY <2>5, Zenon
  <2>7. ASSUME NEW s \in Stores, cache'[s] # None
        PROVE  Saw(cache[s].rows, cache[s].version, table, version, changed, inserted)'
    <3>1. cache[s] # None /\ cache' = cache
      BY <1>0, <2>7
    <3> QED
      BY <2>5, <3>1, Zenon
  <2>8. RequestsSeen'
    BY <2>6, Zenon DEF RequestsSeen
  <2>9. CacheSeen'
    BY <2>7, Zenon DEF CacheSeen
  <2> QED
    BY <2>1, <2>8, <2>9 DEF SeenInv
<1> QED
  BY <1>1, <1>2

LEMMA LoopSeen ==
  ASSUME RegistryInv, SeenInv, Reload \/ StartFlow \/ UNCHANGED registryVars
  PROVE  SeenInv'
<1>0. Loop \in Threads /\ OthersOK
  BY TypesOf DEF Threads, RegistryInv
<1>1. UNCHANGED <<table, version, changed, inserted>>
  BY DEF Reload, StartFlow, registryVars, tables
<1>2. CASE Reload
  <2> DEFINE q == [Idle EXCEPT !.op = "build", !.pc = "look", !.then = "build"]
  <2>1. Set(Loop, q) /\ cache' = [cache EXCEPT ![Video] = None]
    BY <1>2 DEF Reload
  <2>2. q.pc = "look" /\ q.op = "build" /\ q.looked = 0 /\ q.listed = 0
    BY DEF Idle
  <2> HIDE DEF q
  <2>3. Knows(q, table, version, changed, inserted)
    BY <1>0, <2>2, OpsApart DEF Knows, OthersOK
  <2>4. RequestsSeen' /\ Versions'
    BY <1>0, <1>1, <2>1, <2>3, SeenKept
  <2>5. CacheSeen'
    BY <1>0, <1>1, <2>1, StoreThere, CacheKept
  <2> QED
    BY <2>4, <2>5 DEF SeenInv
<1>3. CASE StartFlow
  <2>1. Set(Loop, Idle) /\ cache' = cache
    BY <1>3 DEF StartFlow, Done
  <2>2. RequestsSeen' /\ Versions'
    BY <1>0, <1>1, <2>1, IdleKnows, SeenKept
  <2> QED
    BY <1>1, <2>1, <2>2, CacheKept DEF SeenInv
<1>4. CASE UNCHANGED registryVars
  <2>1. UNCHANGED <<table, version, changed, inserted, cache, req>>
    BY <1>4 DEF registryVars
  <2> QED
    BY <2>1 DEF SeenInv, Versions, CacheSeen, RequestsSeen
<1> QED
  BY <1>2, <1>3, <1>4

LEMMA SeenNext == RegistryInv /\ SeenInv /\ [RegistryNext]_registryVars => SeenInv'
BY SeenStill, WriteSeen, LoopSeen DEF RegistryNext, RegistryStep

(* The step in which a request writes.                                     *)
LEMMA WriterWrites ==
  ASSUME RegistryInv, [RegistryNext]_registryVars, NEW t \in Requesters, At(t, "write"),
         req'[t].pc = "invalidate"
  PROVE  WriteRows(t) /\ ~Done(t)
<1>0. req \in [Threads -> Requests] /\ t \in Threads /\ t # Loop /\ req[t].pc = "write" /\ Idle.pc = "idle"
  BY RegistryAssumption DEF RegistryInv, RegistryTypeOK, Threads, Requesters, At, Idle
<1>1. req'[t] # req[t]
  BY <1>0
<1>2. ASSUME NEW u \in Threads, NEW r, Set(u, r) PROVE u = t
  BY <1>0, <1>1, <1>2 DEF Set
<1>3. ASSUME NEW u \in Threads, Request(u) \/ View(u) PROVE FALSE
  <2>1. u = t /\ req[u].pc = "idle"
    BY <1>2, <1>3 DEF Request, View, Begin, At
  <2> QED
    BY <1>0, <2>1
<1>4. ASSUME NEW u \in Threads, RegistryStep(u) PROVE WriteRows(t)
  <2>1. CASE WriteRows(u)
    <3>1. u = t
      BY <1>2, <2>1 DEF WriteRows, Done, Move
    <3> QED
      BY <2>1, <3>1
  <2>2. CASE ~WriteRows(u)
    <3>1. /\ req[u].pc \in {"exists", "look", "fetch", "fill", "get", "invalidate", "notify", "raise", "poll"}
          /\ \E r : Set(u, r)
      <4>1. CASE Look(u) \/ Fill(u)
        BY <4>1 DEF Look, Fill, Use, Done, Move, At
      <4>2. CASE ~(Look(u) \/ Fill(u))
        BY <1>4, <2>2, <4>2
           DEF RegistryStep, CheckExists, Fetch, Get, Invalidate, Notify, Raise, VideoFails, PollStatus,
               StopWaiting, Done, Move, At
      <4> QED
        BY <4>1, <4>2
    <3>2. u = t
      BY <1>2, <3>1
    <3> QED
      BY <1>0, <3>1, <3>2
  <2> QED
    BY <2>1, <2>2
<1>5. ~(Reload \/ StartFlow)
  <2>1. Loop \in Threads
    BY DEF Threads
  <2>2. Reload \/ StartFlow => \E r : Set(Loop, r)
    BY DEF Reload, StartFlow, Done
  <2> QED
    BY <1>0, <1>2, <2>1, <2>2
<1>6. ~UNCHANGED registryVars
  BY <1>1 DEF registryVars
<1>7. WriteRows(t)
  BY <1>3, <1>4, <1>5, <1>6 DEF RegistryNext
<1>8. ~Done(t)
  BY <1>0 DEF Done, Set
<1> QED
  BY <1>7, <1>8

LEMMA WriteIsRight ==
  ASSUME RegistryInv, SeenInv, NEW t \in Requesters, At(t, "write"), WriteRows(t), ~Done(t)
  PROVE  /\ \A i \in req[t].ids : changed[i] <= req[t].looked =>
              /\ req[t].op = "edit" => table[i] # Absent /\ table'[i].on = table[i].on
              /\ req[t].op = "disable" => table[i] # Absent /\ table'[i].uri = table[i].uri
              /\ req[t].op \in {"add", "batch", "import"} => table[i] = Absent
         /\ (/\ req[t].op \in Adds /\ inserted <= req[t].listed
             /\ Cardinality(Exists(table')) > Cardinality(Exists(table)))
            => Cardinality(Exists(table')) <= MaxStreams
<1>0. /\ t \in Threads /\ req[t] \in Requests /\ Knows(req[t], table, version, changed, inserted) /\ OthersOK
      /\ req[t].pc = "write"
  BY TypesOf DEF Threads, RegistryInv, RegistryTypeOK, SeenInv, RequestsSeen, At
<1>1. \A i \in Ids : table'[i] = IF i \in req[t].ids THEN Written(t, i) ELSE table[i]
  BY DEF WriteRows
<1>2. ASSUME NEW i \in req[t].ids, changed[i] <= req[t].looked, req[t].op \in Patches
      PROVE  table[i] = req[t].rows[i] /\ table[i] # Absent /\ table[i] \in Row /\ table'[i] = Written(t, i)
  BY <1>0, <1>1, <1>2 DEF Knows, OthersOK, Requests
<1>3. ASSUME NEW r \in Row, NEW n
      PROVE  [r EXCEPT !.on = FALSE].uri = r.uri /\ [r EXCEPT !.uri = n].on = r.on
  BY DEF Row
<1>4. ASSUME NEW i \in req[t].ids, changed[i] <= req[t].looked, req[t].op = "edit"
      PROVE  table[i] # Absent /\ table'[i].on = table[i].on
  <2>1. req[t].op \in Patches /\ Written(t, i) = [req[t].rows[i] EXCEPT !.uri = NewUri]
    BY <1>4 DEF Patches, Written, Adds
  <2>2. table[i] = req[t].rows[i] /\ table[i] # Absent /\ table[i] \in Row /\ table'[i] = Written(t, i)
    BY <1>2, <1>4, <2>1
  <2>3. [table[i] EXCEPT !.uri = NewUri].on = table[i].on
    BY <1>3, <2>2
  <2> QED
    BY <2>1, <2>2, <2>3
<1>5. ASSUME NEW i \in req[t].ids, changed[i] <= req[t].looked, req[t].op = "disable"
      PROVE  table[i] # Absent /\ table'[i].uri = table[i].uri
  <2>1. req[t].op \in Patches /\ Written(t, i) = [req[t].rows[i] EXCEPT !.on = FALSE]
    BY <1>5 DEF Patches, Written, Adds
  <2>2. table[i] = req[t].rows[i] /\ table[i] # Absent /\ table[i] \in Row /\ table'[i] = Written(t, i)
    BY <1>2, <1>5, <2>1
  <2>3. [table[i] EXCEPT !.on = FALSE].uri = table[i].uri
    BY <1>3, <2>2
  <2> QED
    BY <2>1, <2>2, <2>3
<1>6. ASSUME NEW i \in req[t].ids, changed[i] <= req[t].looked, req[t].op \in {"add", "batch", "import"}
      PROVE  table[i] = Absent
  BY <1>0, <1>6, OpsApart DEF Knows
<1>7. ASSUME req[t].op \in Adds, inserted <= req[t].listed PROVE Cardinality(Exists(table')) <= MaxStreams
  <2>1. Cardinality(Exists(table) \cup req[t].ids) <= MaxStreams
    BY <1>0, <1>7 DEF Knows
  <2>2. Exists(table') \subseteq Exists(table) \cup req[t].ids
    <3>1. ASSUME NEW i \in Ids, table'[i] # Absent, i \notin req[t].ids PROVE table[i] # Absent
      BY <1>1, <3>1
    <3> QED
      BY <3>1 DEF Exists
  <2>3. IsFiniteSet(Exists(table) \cup req[t].ids)
    BY <1>0, ExistsIn, RegistryAssumption, FS_Subset DEF Requests
  <2>4. /\ Cardinality(Exists(table')) <= Cardinality(Exists(table) \cup req[t].ids)
        /\ Cardinality(Exists(table')) \in Nat /\ Cardinality(Exists(table) \cup req[t].ids) \in Nat
    BY <2>2, <2>3, FS_Subset, FS_CardinalityType
  <2> QED
    BY <2>1, <2>4, RegistryAssumption
<1> QED
  BY <1>4, <1>5, <1>6, <1>7

(* A write of a request is right by what the request has seen: a PATCH     *)
(* keeps the other column and brings no deleted camera back, a batch, an   *)
(* import and `cameras add` overwrite nothing, and max_streams is exceeded *)
(* only when another camera was inserted after the list was read           *)
(* (patch_camera, upsert_many, guard_capacity).                            *)
THEOREM WritesCorrect == AdminSpec => WritesAsSeen
<1> DEFINE A == \A t \in Requesters :
        At(t, "write") /\ req'[t].pc = "invalidate" =>
          /\ \A i \in req[t].ids : changed[i] <= req[t].looked =>
               /\ req[t].op = "edit" => table[i] # Absent /\ table'[i].on = table[i].on
               /\ req[t].op = "disable" => table[i] # Absent /\ table'[i].uri = table[i].uri
               /\ req[t].op \in {"add", "batch", "import"} => table[i] = Absent
          /\ (/\ req[t].op \in Adds /\ inserted <= req[t].listed
              /\ Cardinality(Exists(table')) > Cardinality(Exists(table)))
             => Cardinality(Exists(table')) <= MaxStreams
<1>1. AdminInit => SeenInv
  <2> SUFFICES ASSUME AdminInit PROVE SeenInv
    OBVIOUS
  <2>1. RegistryInit /\ RegistryInv
    BY RegistryInitInv DEF AdminInit
  <2>2. Versions
    BY <2>1 DEF RegistryInit, Versions
  <2>3. CacheSeen
    BY <2>1 DEF RegistryInit, CacheSeen
  <2>4. \A t \in Threads : req[t] = Idle
    BY <2>1 DEF RegistryInit
  <2>5. RequestsSeen
    BY <2>1, <2>4, IdleKnows DEF RequestsSeen
  <2> QED
    BY <2>2, <2>3, <2>5 DEF SeenInv
<1>2. RegistryInv /\ SeenInv /\ [AdminNext]_adminVars => (RegistryInv /\ SeenInv)'
  BY RegistryMoves, RegistryNextInv, SeenNext
<1>3. RegistryInv /\ SeenInv /\ [AdminNext]_adminVars => [A]_registryVars
  <2> SUFFICES ASSUME RegistryInv, SeenInv, [AdminNext]_adminVars, NEW t \in Requesters,
                      At(t, "write"), req'[t].pc = "invalidate"
               PROVE  /\ \A i \in req[t].ids : changed[i] <= req[t].looked =>
                           /\ req[t].op = "edit" => table[i] # Absent /\ table'[i].on = table[i].on
                           /\ req[t].op = "disable" => table[i] # Absent /\ table'[i].uri = table[i].uri
                           /\ req[t].op \in {"add", "batch", "import"} => table[i] = Absent
                      /\ (/\ req[t].op \in Adds /\ inserted <= req[t].listed
                          /\ Cardinality(Exists(table')) > Cardinality(Exists(table)))
                         => Cardinality(Exists(table')) <= MaxStreams
    OBVIOUS
  <2>1. WriteRows(t) /\ ~Done(t)
    BY RegistryMoves, WriterWrites
  <2> QED
    BY <2>1, WriteIsRight
<1>4. WritesAsSeen <=> [][A]_registryVars
  BY DEF WritesAsSeen
<1> HIDE DEF A
<1> QED
  BY <1>1, <1>2, <1>3, <1>4, RegistryInitInv, PTL DEF AdminSpec

-----------------------------------------------------------------------------
(* The settings (SettingsFile).                                            *)

LEMMA SettingsMoves == [AdminNext]_adminVars => [SettingsNext]_settingsVars
BY DEF AdminNext, adminVars, SettingsMove, LicenceMove, TeardownMove, LabMove

Copies == [text: Texts, mtime: Nat]
Inodes == [text: Texts, whole: BOOLEAN, mtime: Nat]

LEMMA DefaultTexts ==
  /\ Defaults \in Texts /\ Unknown \in Copies /\ Unknown.mtime = 0
  /\ \A m \in Nat : [Blank EXCEPT !.mtime = m] \in Inodes /\ [Blank EXCEPT !.mtime = m].mtime = m
<1>1. Defaults \in Texts
  BY DEF Defaults, Texts
<1> QED
  BY <1>1 DEF Unknown, Copies, Blank, Inodes

(* There is always a number that no file held has.                         *)
LEMMA FreshOf == ASSUME NEW S, IsFiniteSet(S)
                 PROVE  \E n \in 1..(Cardinality(S) + 1) : n \notin S
<1> DEFINE k == Cardinality(S)
<1>1. k \in Nat
  BY FS_CardinalityType
<1>2. IsFiniteSet(1..(k + 1)) /\ Cardinality(1..(k + 1)) = k + 1
  <2>1. 1 \in Int /\ k + 1 \in Int /\ 1 <= k + 1
    BY <1>1
  <2> HIDE DEF k
  <2> QED
    BY <2>1, <1>1, FS_Interval
<1>3. CASE 1..(k + 1) \subseteq S
  <2>1. k + 1 <= k
    BY <1>2, <1>3, FS_Subset
  <2> QED
    BY <1>1, <2>1
<1>4. CASE ~(1..(k + 1) \subseteq S)
  BY <1>4
<1> QED
  BY <1>3, <1>4

LEMMA FreshFile == Fresh \in Nat /\ Fresh \notin Held /\ Fresh # None
<1>1. IsFiniteSet(Procs)
  <2>1. IsFiniteSet({Api, Video})
    <3>1. {Api, Video} = {Api} \cup {Video}
      OBVIOUS
    <3>2. IsFiniteSet({Api})
      BY FS_Singleton, Zenon
    <3>3. IsFiniteSet({Api} \cup {Video})
      BY <3>2, FS_AddElement, Zenon
    <3> QED
      BY <3>1, <3>3
  <2> QED
    BY <2>1, FS_Union, SettingsAssumption DEF Procs, Residents
<1>2. IsFiniteSet({fd[p] : p \in Procs})
  <2> DEFINE S == {fd[p] : p \in Procs}
             g == [p \in Procs |-> fd[p]]
  <2>1. g \in Surjection(Procs, S)
    BY DEF Surjection
  <2> QED
    BY <1>1, <2>1, FS_Surjection
<1>3. IsFiniteSet(Held)
  <2>1. IsFiniteSet({path, tmp})
    <3>1. {path, tmp} = {path} \cup {tmp}
      OBVIOUS
    <3>2. IsFiniteSet({path})
      BY FS_Singleton, Zenon
    <3>3. IsFiniteSet({path} \cup {tmp})
      BY <3>2, FS_AddElement, Zenon
    <3> QED
      BY <3>1, <3>3
  <2>2. IsFiniteSet({path, tmp} \cup {fd[p] : p \in Procs})
    BY <1>2, <2>1, FS_Union
  <2>3. Held \subseteq {path, tmp} \cup {fd[p] : p \in Procs}
    BY DEF Held
  <2> QED
    BY <2>2, <2>3, FS_Subset
<1>4. PICK n \in 1..(Cardinality(Held) + 1) : n \notin Held
  BY <1>3, FreshOf
<1>5. Fresh \in 1..(Cardinality(Held) + 1) /\ Fresh \notin Held
  BY <1>4 DEF Fresh
<1> QED
  BY <1>3, <1>5, SettingsAssumption, FS_CardinalityType

-----------------------------------------------------------------------------
(* What a process has of its own, and what a step of it does to that of    *)
(* the others: nothing.                                                    *)
OwnOK ==
  /\ memory \in [Procs -> Copies] /\ step \in [Procs -> Steps] /\ phase \in [Procs -> Phases]
  /\ patch \in [Procs -> SUBSET Fields] /\ text \in [Procs -> Texts]

Alone(p) ==
  \A q \in Procs \ {p} : /\ memory'[q] = memory[q] /\ step'[q] = step[q]
                         /\ patch'[q] = patch[q] /\ text'[q] = text[q]

LEMMA GotoOf ==
  ASSUME OwnOK, NEW p \in Procs, NEW s \in Steps, Goto(p, s)
  PROVE  /\ step' \in [Procs -> Steps] /\ phase' \in [Procs -> Phases]
         /\ patch' \in [Procs -> SUBSET Fields]
         /\ step'[p] = s /\ patch' = patch /\ \A q \in Procs \ {p} : step'[q] = step[q]
BY DEF OwnOK, Goto

LEMMA ForgetOf ==
  ASSUME OwnOK, NEW p \in Procs, Forget(p)
  PROVE  /\ text' \in [Procs -> Texts] /\ \A q \in Procs \ {p} : text'[q] = text[q]
BY DefaultTexts DEF OwnOK, Forget

LEMMA KeepOf ==
  ASSUME OwnOK, NEW p \in Procs, NEW m \in Copies, Keep(p, m)
  PROVE  /\ memory' \in [Procs -> Copies] /\ memory'[p] = m
         /\ \A q \in Procs \ {p} : memory'[q] = memory[q]
BY DEF OwnOK, Keep

(* A method that returns ends the request, with the copy it leaves, or     *)
(* goes on to the next method.                                             *)
LEMMA ReturnOf ==
  ASSUME OwnOK, NEW p \in Procs, NEW m \in Copies, Return(p, m)
  PROVE  /\ OwnOK' /\ Alone(p)
         /\ \/ step'[p] = "off" /\ memory'[p] = Unknown
            \/ step'[p] \in {"idle", "stat", "merge"} /\ memory'[p] = m
<1>0. /\ text' \in [Procs -> Texts] /\ \A q \in Procs \ {p} : text'[q] = text[q]
  BY ForgetOf DEF Return
<1>1. CASE patch[p] = {} \/ phase[p] = "update"
  <2> DEFINE rest == IF p \in Residents THEN m ELSE Unknown
  <2>1. /\ step' = [step EXCEPT ![p] = Resting(p)]
        /\ phase' = [phase EXCEPT ![p] = IF p \in Residents THEN "get" ELSE "make"]
        /\ patch' = [patch EXCEPT ![p] = {}]
        /\ Keep(p, rest)
    BY <1>1 DEF Return
  <2>2. Resting(p) = (IF p \in Residents THEN "idle" ELSE "off") /\ Resting(p) \in Steps
    BY DEF Resting, Steps
  <2>3. rest \in Copies
    BY DefaultTexts
  <2> HIDE DEF rest
  <2>4. memory' \in [Procs -> Copies] /\ memory'[p] = rest /\ \A q \in Procs \ {p} : memory'[q] = memory[q]
    BY <2>1, <2>3, KeepOf
  <2>5. /\ step' \in [Procs -> Steps] /\ phase' \in [Procs -> Phases]
        /\ patch' \in [Procs -> SUBSET Fields] /\ step'[p] = Resting(p)
        /\ \A q \in Procs \ {p} : step'[q] = step[q] /\ patch'[q] = patch[q]
    BY <2>1, <2>2 DEF OwnOK, Phases
  <2> QED
    BY <1>0, <2>2, <2>4, <2>5 DEF OwnOK, Alone, rest
<1>2. CASE ~(patch[p] = {} \/ phase[p] = "update")
  <2>1. /\ step' = [step EXCEPT ![p] = IF phase[p] = "make" THEN "stat" ELSE "merge"]
        /\ phase' = [phase EXCEPT ![p] = IF @ = "make" THEN "get" ELSE "update"]
        /\ Keep(p, m) /\ UNCHANGED patch
    BY <1>2 DEF Return
  <2>2. memory' \in [Procs -> Copies] /\ memory'[p] = m /\ \A q \in Procs \ {p} : memory'[q] = memory[q]
    BY <2>1, KeepOf
  <2>3. /\ step' \in [Procs -> Steps] /\ phase' \in [Procs -> Phases]
        /\ patch' \in [Procs -> SUBSET Fields] /\ step'[p] \in {"stat", "merge"}
        /\ \A q \in Procs \ {p} : step'[q] = step[q] /\ patch'[q] = patch[q]
    BY <2>1 DEF OwnOK, Steps, Phases
  <2> QED
    BY <1>0, <2>2, <2>3 DEF OwnOK, Alone
<1> QED
  BY <1>1, <1>2

LEMMA FailOf ==
  ASSUME OwnOK, NEW p \in Procs, Fail(p)
  PROVE  /\ OwnOK' /\ Alone(p)
         /\ \/ step'[p] = "off" /\ memory'[p] = Unknown
            \/ step'[p] = "idle" /\ memory'[p] = memory[p]
<1>0. /\ text' \in [Procs -> Texts] /\ \A q \in Procs \ {p} : text'[q] = text[q]
  BY ForgetOf DEF Fail
<1>1. /\ step' = [step EXCEPT ![p] = IF phase[p] = "make" THEN "off" ELSE Resting(p)]
      /\ phase' = [phase EXCEPT ![p] = IF step'[p] = "off" THEN "make" ELSE "get"]
      /\ patch' = [patch EXCEPT ![p] = {}]
      /\ IF step'[p] = "off" THEN Keep(p, Unknown) ELSE UNCHANGED memory
  BY DEF Fail
<1>2. /\ step' \in [Procs -> Steps] /\ step'[p] \in {"off", "idle"}
      /\ \A q \in Procs \ {p} : step'[q] = step[q]
  BY <1>1 DEF OwnOK, Resting, Steps
<1>3. /\ phase' \in [Procs -> Phases] /\ patch' \in [Procs -> SUBSET Fields]
      /\ \A q \in Procs \ {p} : patch'[q] = patch[q]
  BY <1>1 DEF OwnOK, Phases
<1>4. /\ memory' \in [Procs -> Copies] /\ \A q \in Procs \ {p} : memory'[q] = memory[q]
      /\ IF step'[p] = "off" THEN memory'[p] = Unknown ELSE memory'[p] = memory[p]
  BY <1>1, KeepOf, DefaultTexts DEF OwnOK
<1> QED
  BY <1>0, <1>2, <1>3, <1>4 DEF OwnOK, Alone

-----------------------------------------------------------------------------
(* Types; a process that writes has the temporary file open, and one that  *)
(* is not there remembers nothing.                                         *)
Hands ==
  \A p \in Procs : /\ step[p] \in Writing => fd[p] # None
                   /\ step[p] = "off" => memory[p] = Unknown
SettingsShape == SettingsTypeOK /\ DOMAIN inodes \subseteq Nat /\ Hands

LEMMA OwnTypes == SettingsTypeOK => OwnOK
BY DEF SettingsTypeOK, OwnOK, Copies

(* What is read of the file.                                               *)
LEMMA FileTypes ==
  ASSUME SettingsTypeOK
  PROVE  /\ Mtime \in Nat /\ (path # None => path \in DOMAIN inodes /\ File \in Texts)
         /\ \A p \in Procs : Loaded(p) \in Copies
<1>1. path # None => path \in DOMAIN inodes /\ inodes[path] \in Inodes
  BY DEF SettingsTypeOK, Inodes
<1>2. Mtime \in Nat
  BY <1>1 DEF Mtime, Inodes
<1>3. ASSUME NEW p \in Procs PROVE text[p] \in Texts
  BY DEF SettingsTypeOK
<1> QED
  BY <1>1, <1>2, <1>3 DEF File, Inodes, Loaded, Copies

(* A step that leaves the files and who has them open as they are.         *)
LEMMA OwnStepShape ==
  ASSUME SettingsShape, NEW p \in Procs, OwnOK', Alone(p), UNCHANGED <<inodes, path, tmp, fd>>,
         step'[p] \in Writing => step[p] \in Writing,
         step'[p] = "off" => memory'[p] = Unknown,
         ticks' \in Nat, calls' \in Nat, met' \in [Procs -> BOOLEAN], clashed' = clashed
  PROVE  SettingsShape'
<1>1. SettingsTypeOK'
  BY DEF SettingsShape, SettingsTypeOK, OwnOK, Copies
<1>2. Hands'
  BY DEF Hands, SettingsShape, Alone
<1> QED
  BY <1>1, <1>2 DEF SettingsShape

LEMMA MetTypes ==
  ASSUME SettingsTypeOK, NEW p \in Procs
  PROVE  /\ MetBy(p) \in [Procs -> BOOLEAN]
         /\ StartLoad(p) => met' \in [Procs -> BOOLEAN]
BY DEF SettingsTypeOK, MetBy, StartLoad

LEMMA BootStep ==
  ASSUME SettingsShape, NEW p \in Procs, Boot(p)
  PROVE  SettingsShape' /\ Alone(p) /\ step'[p] = "load"
<1>1. /\ step' \in [Procs -> Steps] /\ phase' \in [Procs -> Phases]
      /\ patch' \in [Procs -> SUBSET Fields]
      /\ step'[p] = "load" /\ patch' = patch /\ \A q \in Procs \ {p} : step'[q] = step[q]
  BY OwnTypes, GotoOf DEF SettingsShape, Boot, Steps
<1>2. met' \in [Procs -> BOOLEAN]
  BY MetTypes DEF SettingsShape, Boot
<1>3. Alone(p) /\ OwnOK'
  BY <1>1, OwnTypes DEF Alone, OwnOK, Boot, SettingsShape
<1> QED
  BY <1>1, <1>2, <1>3, OwnStepShape DEF Boot, files, Writing, SettingsShape, SettingsTypeOK

LEMMA PollStep ==
  ASSUME SettingsShape, NEW p \in Procs, Poll(p)
  PROVE  SettingsShape' /\ Alone(p) /\ step'[p] = "stat"
<1>1. /\ step' \in [Procs -> Steps] /\ phase' \in [Procs -> Phases]
      /\ patch' \in [Procs -> SUBSET Fields]
      /\ step'[p] = "stat" /\ patch' = patch /\ \A q \in Procs \ {p} : step'[q] = step[q]
  BY OwnTypes, GotoOf DEF SettingsShape, Poll, Steps
<1>3. Alone(p) /\ OwnOK'
  BY <1>1, OwnTypes DEF Alone, OwnOK, Poll, SettingsShape
<1> QED
  BY <1>1, <1>3, OwnStepShape DEF Poll, files, Writing, SettingsShape, SettingsTypeOK

LEMMA ChangeStep ==
  ASSUME SettingsShape, NEW p \in Procs, NEW fields \in SUBSET Fields, Change(p, fields)
  PROVE  SettingsShape' /\ Alone(p)
<1>1. /\ step' = [step EXCEPT ![p] = IF p \in Residents THEN "stat" ELSE "load"]
      /\ patch' = [patch EXCEPT ![p] = fields]
      /\ met' = [met EXCEPT ![p] = @ /\ p \in Residents]
      /\ calls' = calls - 1 /\ calls > 0
      /\ UNCHANGED <<inodes, path, tmp, ticks, memory, phase, text, fd, clashed>>
  BY DEF Change, files
<1>2. /\ step' \in [Procs -> Steps] /\ step'[p] \in {"stat", "load"}
      /\ \A q \in Procs \ {p} : step'[q] = step[q]
  BY <1>1 DEF SettingsShape, SettingsTypeOK, Steps
<1>3. /\ patch' \in [Procs -> SUBSET Fields]
      /\ \A q \in Procs \ {p} : patch'[q] = patch[q]
  BY <1>1 DEF SettingsShape, SettingsTypeOK
<1>4. met' \in [Procs -> BOOLEAN] /\ calls' \in Nat
  BY <1>1 DEF SettingsShape, SettingsTypeOK
<1>5. Alone(p) /\ OwnOK'
  BY <1>1, <1>2, <1>3, OwnTypes DEF Alone, OwnOK, SettingsShape
<1> QED
  BY <1>1, <1>2, <1>4, <1>5, OwnStepShape DEF Writing, SettingsShape, SettingsTypeOK

LEMMA CrashStep ==
  ASSUME SettingsShape, NEW p \in Procs, Crash(p)
  PROVE  /\ SettingsShape' /\ Alone(p) /\ step'[p] = "off" /\ memory'[p] = Unknown
         /\ \A q \in Procs \ {p} : fd'[q] = fd[q]
<1>1. /\ step' = [step EXCEPT ![p] = "off"] /\ phase' = [phase EXCEPT ![p] = "make"]
      /\ patch' = [patch EXCEPT ![p] = {}] /\ Forget(p) /\ Keep(p, Unknown)
      /\ fd' = [fd EXCEPT ![p] = None] /\ calls' = calls - 1 /\ calls > 0
      /\ UNCHANGED <<inodes, path, tmp, ticks, met, clashed>>
  BY DEF Crash, files
<1>2. /\ step' \in [Procs -> Steps] /\ step'[p] = "off" /\ phase' \in [Procs -> Phases]
      /\ patch' \in [Procs -> SUBSET Fields]
      /\ \A q \in Procs \ {p} : step'[q] = step[q] /\ patch'[q] = patch[q]
  BY <1>1 DEF SettingsShape, SettingsTypeOK, Steps, Phases
<1>3. text' \in [Procs -> Texts] /\ \A q \in Procs \ {p} : text'[q] = text[q]
  BY <1>1, OwnTypes, ForgetOf DEF SettingsShape
<1>4. memory' \in [Procs -> Copies] /\ memory'[p] = Unknown
      /\ \A q \in Procs \ {p} : memory'[q] = memory[q]
  BY <1>1, OwnTypes, KeepOf, DefaultTexts DEF SettingsShape
<1>5. fd' \in [Procs -> DOMAIN inodes' \cup {None}] /\ \A q \in Procs \ {p} : fd'[q] = fd[q]
  BY <1>1 DEF SettingsShape, SettingsTypeOK
<1>6. SettingsTypeOK'
  BY <1>1, <1>2, <1>3, <1>4, <1>5 DEF SettingsShape, SettingsTypeOK, Copies
<1>7. Hands'
  BY <1>2, <1>4, <1>5 DEF Hands, SettingsShape, Writing
<1> QED
  BY <1>1, <1>2, <1>3, <1>4, <1>5, <1>6, <1>7 DEF SettingsShape, Alone

(* A request returns with a copy, if only to go on with the next method.   *)
Returned(p, m) ==
  \/ step'[p] = "off" /\ memory'[p] = Unknown
  \/ step'[p] \in {"idle", "stat", "merge"} /\ memory'[p] = m

LEMMA StatStep ==
  ASSUME SettingsShape, NEW p \in Procs, Stat(p)
  PROVE  /\ SettingsShape' /\ Alone(p)
         /\ \/ /\ MustReload(p) /\ step'[p] = "load" /\ memory'[p] = memory[p]
               /\ met' = [met EXCEPT ![p] = FALSE]
            \/ ~MustReload(p) /\ Returned(p, memory[p]) /\ met' = met
<1>0. OwnOK /\ memory[p] \in Copies /\ UNCHANGED <<inodes, path, tmp, ticks, fd, calls, clashed>>
  BY OwnTypes DEF SettingsShape, SettingsTypeOK, Stat, files, Copies
<1>1. CASE MustReload(p)
  <2>1. Goto(p, "load") /\ StartLoad(p) /\ UNCHANGED <<text, memory>>
    BY <1>1 DEF Stat
  <2>2. /\ step' \in [Procs -> Steps] /\ phase' \in [Procs -> Phases]
        /\ patch' \in [Procs -> SUBSET Fields]
        /\ step'[p] = "load" /\ patch' = patch /\ \A q \in Procs \ {p} : step'[q] = step[q]
    BY <1>0, <2>1, GotoOf DEF Steps
  <2>3. OwnOK' /\ Alone(p)
    BY <1>0, <2>1, <2>2 DEF OwnOK, Alone
  <2>4. met' = [met EXCEPT ![p] = FALSE] /\ met' \in [Procs -> BOOLEAN]
    BY <2>1, MetTypes DEF StartLoad, SettingsShape
  <2>5. SettingsShape'
    BY <1>0, <2>2, <2>3, <2>4, OwnStepShape DEF Writing, SettingsShape, SettingsTypeOK
  <2> QED
    BY <1>1, <2>1, <2>2, <2>3, <2>4, <2>5
<1>2. CASE ~MustReload(p)
  <2>1. Return(p, memory[p]) /\ UNCHANGED met
    BY <1>2 DEF Stat
  <2>2. OwnOK' /\ Alone(p) /\ Returned(p, memory[p])
    BY <1>0, <2>1, ReturnOf DEF Returned
  <2>3. SettingsShape'
    BY <1>0, <2>1, <2>2, OwnStepShape DEF Writing, SettingsShape, SettingsTypeOK, Returned
  <2> QED
    BY <1>2, <2>1, <2>2, <2>3
<1> QED
  BY <1>1, <1>2

LEMMA LoadStep ==
  ASSUME SettingsShape, NEW p \in Procs, Load(p)
  PROVE  /\ SettingsShape' /\ Alone(p)
         /\ \/ path = None /\ step'[p] = "open" /\ memory'[p] = memory[p]
            \/ path # None /\ step'[p] = "stamp" /\ text'[p] = File /\ memory'[p] = memory[p]
            \/ step'[p] = "off" /\ memory'[p] = Unknown
            \/ step'[p] = "idle" /\ memory'[p] = memory[p]
<1>0. OwnOK /\ UNCHANGED <<inodes, path, tmp, ticks, fd, calls, met, clashed>>
  BY OwnTypes DEF SettingsShape, Load, files
<1>1. ASSUME NEW x \in Texts, NEW s \in {"open", "stamp"}, text' = [text EXCEPT ![p] = x], Goto(p, s),
             UNCHANGED memory
      PROVE  /\ SettingsShape' /\ Alone(p) /\ step'[p] = s /\ text'[p] = x
  <2>2. /\ step' \in [Procs -> Steps] /\ phase' \in [Procs -> Phases]
        /\ patch' \in [Procs -> SUBSET Fields]
        /\ step'[p] = s /\ patch' = patch /\ \A q \in Procs \ {p} : step'[q] = step[q]
    BY <1>0, <1>1, GotoOf DEF Steps
  <2>3. OwnOK' /\ Alone(p) /\ text'[p] = x
    BY <1>0, <1>1, <2>2 DEF OwnOK, Alone
  <2>4. SettingsShape'
    BY <1>0, <2>2, <2>3, OwnStepShape DEF Writing, SettingsShape, SettingsTypeOK
  <2> QED
    BY <2>2, <2>3, <2>4
<1>2. CASE path = None
  BY <1>1, <1>2, DefaultTexts DEF Load
<1>3. CASE path # None /\ inodes[path].whole
  <2>1. File \in Texts
    BY <1>3, FileTypes DEF SettingsShape
  <2> QED
    BY <1>1, <1>3, <2>1 DEF Load
<1>4. CASE path # None /\ ~inodes[path].whole
  <2>1. Fail(p)
    BY <1>4 DEF Load
  <2>2. /\ OwnOK' /\ Alone(p)
        /\ \/ step'[p] = "off" /\ memory'[p] = Unknown
           \/ step'[p] = "idle" /\ memory'[p] = memory[p]
    BY <1>0, <2>1, FailOf
  <2>3. SettingsShape'
    BY <1>0, <2>2, OwnStepShape DEF Writing, SettingsShape, SettingsTypeOK
  <2> QED
    BY <2>2, <2>3
<1> QED
  BY <1>2, <1>3, <1>4

LEMMA StampStep ==
  ASSUME SettingsShape, NEW p \in Procs, Stamp(p)
  PROVE  /\ SettingsShape' /\ Alone(p)
         /\ \/ /\ step'[p] = "open" /\ text'[p].val = text[p].val /\ memory'[p].mtime = Mtime
            \/ Returned(p, Loaded(p))
<1>0. OwnOK /\ UNCHANGED <<inodes, path, tmp, ticks, fd, calls, met, clashed>>
  BY OwnTypes DEF SettingsShape, Stamp, files
<1>1. CASE text[p].legacy
  <2>1. /\ text' = [text EXCEPT ![p].legacy = FALSE]
        /\ Keep(p, [memory[p] EXCEPT !.mtime = Mtime])
        /\ Goto(p, "open")
    BY <1>1 DEF Stamp
  <2>2. /\ step' \in [Procs -> Steps] /\ phase' \in [Procs -> Phases]
        /\ patch' \in [Procs -> SUBSET Fields]
        /\ step'[p] = "open" /\ patch' = patch /\ \A q \in Procs \ {p} : step'[q] = step[q]
    BY <1>0, <2>1, GotoOf DEF Steps
  <2>3. /\ text' \in [Procs -> Texts] /\ text'[p].val = text[p].val
        /\ \A q \in Procs \ {p} : text'[q] = text[q]
    BY <1>0, <2>1 DEF OwnOK, Texts
  <2>4. [memory[p] EXCEPT !.mtime = Mtime] \in Copies /\ [memory[p] EXCEPT !.mtime = Mtime].mtime = Mtime
    BY <1>0, FileTypes DEF OwnOK, Copies, SettingsShape
  <2>5. /\ memory' \in [Procs -> Copies] /\ memory'[p].mtime = Mtime
        /\ \A q \in Procs \ {p} : memory'[q] = memory[q]
    BY <1>0, <2>1, <2>4, KeepOf
  <2>6. OwnOK' /\ Alone(p)
    BY <2>2, <2>3, <2>5 DEF OwnOK, Alone
  <2>7. SettingsShape'
    BY <1>0, <2>2, <2>6, <1>1, OwnStepShape DEF Writing, SettingsShape, SettingsTypeOK
  <2> QED
    BY <2>2, <2>3, <2>5, <2>6, <2>7
<1>2. CASE ~text[p].legacy
  <2>1. Return(p, Loaded(p)) /\ Loaded(p) \in Copies
    BY <1>2, FileTypes DEF Stamp, SettingsShape
  <2>2. OwnOK' /\ Alone(p) /\ Returned(p, Loaded(p))
    BY <1>0, <2>1, ReturnOf DEF Returned
  <2>3. SettingsShape'
    BY <1>0, <2>2, OwnStepShape DEF Writing, SettingsShape, SettingsTypeOK, Returned
  <2> QED
    BY <2>2, <2>3
<1> QED
  BY <1>1, <1>2

LEMMA MergeStep ==
  ASSUME SettingsShape, NEW p \in Procs, Merge(p)
  PROVE  /\ SettingsShape' /\ Alone(p)
         /\ step'[p] = "open" /\ patch' = patch /\ memory'[p].mtime = memory[p].mtime
         /\ \A d \in Fields \ patch[p] : text'[p].val[d] = memory[p].text.val[d]
<1>0. /\ OwnOK /\ UNCHANGED <<inodes, path, tmp, fd, calls, met, clashed>>
      /\ text' = [text EXCEPT ![p] = Patched(p)]
      /\ Keep(p, [memory[p] EXCEPT !.text = Patched(p)])
      /\ ticks' = ticks + 1 /\ ticks' \in Nat
      /\ Goto(p, "open")
  BY OwnTypes DEF SettingsShape, SettingsTypeOK, Merge
<1>1. /\ step' \in [Procs -> Steps] /\ phase' \in [Procs -> Phases]
      /\ patch' \in [Procs -> SUBSET Fields]
      /\ step'[p] = "open" /\ patch' = patch /\ \A q \in Procs \ {p} : step'[q] = step[q]
  BY <1>0, GotoOf DEF Steps
<1>2. /\ Patched(p) \in Texts
      /\ \A d \in Fields \ patch[p] : Patched(p).val[d] = memory[p].text.val[d]
  <2>1. ASSUME NEW d \in Fields
        PROVE  (IF d \in patch[p] THEN ticks + 1 ELSE memory[p].text.val[d]) \in Nat
    BY <1>0 DEF OwnOK, Copies, Texts, SettingsShape, SettingsTypeOK
  <2> QED
    BY <2>1 DEF Patched, Texts
<1>3. /\ text' \in [Procs -> Texts] /\ text'[p] = Patched(p)
      /\ \A q \in Procs \ {p} : text'[q] = text[q]
  BY <1>0, <1>2 DEF OwnOK
<1>4. /\ [memory[p] EXCEPT !.text = Patched(p)] \in Copies
      /\ [memory[p] EXCEPT !.text = Patched(p)].mtime = memory[p].mtime
  BY <1>0, <1>2 DEF OwnOK, Copies
<1>5. /\ memory' \in [Procs -> Copies] /\ memory'[p].mtime = memory[p].mtime
      /\ \A q \in Procs \ {p} : memory'[q] = memory[q]
  BY <1>0, <1>4, KeepOf
<1>6. OwnOK' /\ Alone(p)
  BY <1>1, <1>3, <1>5 DEF OwnOK, Alone
<1>7. SettingsShape'
  BY <1>0, <1>1, <1>6, OwnStepShape DEF Writing, SettingsShape, SettingsTypeOK
<1> QED
  BY <1>1, <1>2, <1>3, <1>5, <1>6, <1>7

LEMMA SettleStep ==
  ASSUME SettingsShape, NEW p \in Procs, Settle(p)
  PROVE  SettingsShape' /\ Alone(p) /\ Returned(p, Loaded(p))
<1>0. OwnOK /\ UNCHANGED <<inodes, path, tmp, ticks, fd, calls, met, clashed>>
  BY OwnTypes DEF SettingsShape, Settle, files
<1>1. Return(p, Loaded(p)) /\ Loaded(p) \in Copies
  BY FileTypes DEF Settle, SettingsShape
<1>2. OwnOK' /\ Alone(p) /\ Returned(p, Loaded(p))
  BY <1>0, <1>1, ReturnOf DEF Returned
<1>3. SettingsShape'
  BY <1>0, <1>2, OwnStepShape DEF Writing, SettingsShape, SettingsTypeOK, Returned
<1> QED
  BY <1>2, <1>3

(* The clock of mtimes is ahead of all of them and gives each to one file; *)
(* nobody remembers the mtime of the temporary file, which is another file *)
(* than settings.json.                                                     *)
Stamps ==
  /\ \A n \in DOMAIN inodes : 0 < inodes[n].mtime /\ inodes[n].mtime <= ticks
  /\ \A n, o \in DOMAIN inodes : n # o => inodes[n].mtime # inodes[o].mtime
  /\ \A p \in Procs : memory[p].mtime <= ticks
  /\ path # None => path # tmp
  /\ tmp # None => \A p \in Procs : memory[p].mtime # inodes[tmp].mtime

LEMMA QuietStamps ==
  ASSUME SettingsShape, Stamps, NEW p \in Procs, Alone(p), UNCHANGED <<inodes, path, tmp>>,
         ticks' \in Nat, ticks <= ticks', memory'[p].mtime \in {memory[p].mtime, Mtime, 0}
  PROVE  Stamps'
<1>1. /\ \A n \in DOMAIN inodes : inodes[n].mtime \in Nat
      /\ \A q \in Procs : memory[q].mtime \in Nat
      /\ ticks \in Nat /\ {path, tmp} \subseteq DOMAIN inodes \cup {None}
  BY DEF SettingsShape, SettingsTypeOK
<1>2. memory'[p].mtime <= ticks
  BY <1>1 DEF Stamps, Mtime
<1>3. ASSUME tmp # None PROVE memory'[p].mtime # inodes[tmp].mtime
  BY <1>1, <1>3 DEF Stamps, Mtime
<1>4. \A q \in Procs : q # p => memory'[q] = memory[q]
  BY DEF Alone
<1>5. \A n \in DOMAIN inodes : inodes[n].mtime <= ticks'
  BY <1>1 DEF Stamps
<1>6. \A q \in Procs : memory'[q].mtime <= ticks'
  <2>1. \A q \in Procs : memory[q].mtime <= ticks /\ memory[q].mtime \in Nat
    BY <1>1 DEF Stamps
  <2>2. memory'[p].mtime \in Nat
    BY <1>1, <2>1 DEF Mtime
  <2>3. memory'[p].mtime <= ticks'
    BY <1>1, <1>2, <2>2
  <2>4. \A q \in Procs : q # p => memory'[q].mtime <= ticks'
    BY <1>1, <1>4, <2>1
  <2> QED
    BY <2>3, <2>4
<1> QED
  BY <1>3, <1>4, <1>5, <1>6 DEF Stamps

(* The steps of a writer leave its copy, and what the others have open.    *)
OpenHands(p) == memory' = memory /\ \A q \in Procs \ {p} : fd'[q] = fd[q]

LEMMA OpenStep ==
  ASSUME SettingsShape, Stamps, NEW p \in Procs, Open(p)
  PROVE  /\ SettingsShape' /\ Stamps' /\ Alone(p) /\ OpenHands(p)
         /\ path' = path /\ (path # None => inodes'[path] = inodes[path])
         /\ step'[p] = "write" /\ fd'[p] = tmp' /\ text' = text /\ patch' = patch
<1> DEFINE new == IF tmp = None THEN Fresh ELSE tmp
           e   == [Blank EXCEPT !.mtime = ticks']
<1>1. /\ inodes' = [n \in DOMAIN inodes \cup {new} |-> IF n = new THEN e ELSE inodes[n]]
      /\ tmp' = new /\ fd' = [fd EXCEPT ![p] = new] /\ ticks' = ticks + 1
      /\ Goto(p, "write") /\ met' = MetBy(p)
      /\ clashed' = (clashed \/ \E q \in Procs \ {p} : step[q] \in Writing)
      /\ UNCHANGED <<path, memory, text, calls>>
  BY DEF Open
<1>2. new \in Nat /\ new # None /\ (path # None => new # path)
  <2>1. CASE tmp = None
    BY <2>1, FreshFile DEF Held
  <2>2. CASE tmp # None
    BY <2>2 DEF Stamps, SettingsShape, SettingsTypeOK
  <2> QED
    BY <2>1, <2>2
<1>3. ticks \in Nat /\ ticks' \in Nat
  BY <1>1 DEF SettingsShape, SettingsTypeOK
<1>4. e \in Inodes /\ e.mtime = ticks'
  BY <1>3, DefaultTexts
<1> HIDE DEF new, e
<1>5. /\ DOMAIN inodes' = DOMAIN inodes \cup {new} /\ inodes'[new] = e
      /\ \A n \in DOMAIN inodes : n # new => inodes'[n] = inodes[n]
  BY <1>1
<1>6. /\ step' \in [Procs -> Steps] /\ phase' \in [Procs -> Phases]
      /\ patch' \in [Procs -> SUBSET Fields]
      /\ step'[p] = "write" /\ patch' = patch /\ \A q \in Procs \ {p} : step'[q] = step[q]
  BY <1>1, OwnTypes, GotoOf DEF SettingsShape, Steps
<1>7. /\ fd' \in [Procs -> DOMAIN inodes' \cup {None}] /\ fd'[p] = new
      /\ \A q \in Procs \ {p} : fd'[q] = fd[q]
  BY <1>1, <1>5 DEF SettingsShape, SettingsTypeOK
<1>8. met' \in [Procs -> BOOLEAN] /\ clashed' \in BOOLEAN
  BY <1>1, MetTypes DEF SettingsShape, SettingsTypeOK
<1>9. \A n \in DOMAIN inodes' : inodes'[n] \in Inodes
  BY <1>4, <1>5 DEF SettingsShape, SettingsTypeOK, Inodes
<1>10. {path', tmp'} \subseteq DOMAIN inodes' \cup {None}
  BY <1>1, <1>5 DEF SettingsShape, SettingsTypeOK
<1>11. SettingsTypeOK'
  BY <1>1, <1>3, <1>6, <1>7, <1>8, <1>9, <1>10 DEF SettingsShape, SettingsTypeOK, Inodes
<1>12. SettingsShape'
  BY <1>1, <1>2, <1>5, <1>6, <1>7, <1>11 DEF SettingsShape, Hands, Writing
<1>13. Stamps'
  <2>1. \A n \in DOMAIN inodes : inodes[n].mtime \in Nat /\ inodes[n].mtime < ticks'
    BY <1>1, <1>3 DEF Stamps, SettingsShape, SettingsTypeOK
  <2>2. \A q \in Procs : memory[q].mtime \in Nat /\ memory[q].mtime < ticks'
    BY <1>1, <1>3 DEF Stamps, SettingsShape, SettingsTypeOK
  <2>3. \A n \in DOMAIN inodes' : 0 < inodes'[n].mtime /\ inodes'[n].mtime <= ticks'
    BY <1>1, <1>3, <1>4, <1>5, <2>1 DEF Stamps
  <2>4. \A n, o \in DOMAIN inodes' : n # o => inodes'[n].mtime # inodes'[o].mtime
    BY <1>3, <1>4, <1>5, <2>1 DEF Stamps
  <2>5. \A q \in Procs : memory'[q].mtime # inodes'[tmp'].mtime /\ memory'[q].mtime <= ticks'
    BY <1>1, <1>3, <1>4, <1>5, <2>2
  <2> QED
    BY <1>1, <1>2, <2>3, <2>4, <2>5 DEF Stamps
<1>14. path # None => inodes'[path] = inodes[path]
  BY <1>2, <1>5 DEF SettingsShape, SettingsTypeOK
<1> QED
  BY <1>1, <1>6, <1>7, <1>12, <1>13, <1>14 DEF Alone, OpenHands

LEMMA WriteStep ==
  ASSUME SettingsShape, Stamps, NEW p \in Procs, Write(p)
  PROVE  /\ SettingsShape' /\ Stamps' /\ Alone(p) /\ OpenHands(p)
         /\ path' = path /\ (path # None /\ path # fd[p] => inodes'[path] = inodes[path])
         /\ path # None => \A q \in Procs : path = fd[p] => memory[q].mtime # inodes'[path].mtime
         /\ step'[p] = "rename" /\ fd'[p] = fd[p] /\ tmp' = tmp /\ text' = text /\ patch' = patch
         /\ inodes'[fd[p]].text = text[p] /\ step[p] = "write"
<1>1. PICK whole \in BOOLEAN :
        /\ ~whole => inodes[fd[p]].text # Defaults \/ inodes[fd[p]].whole
        /\ inodes' = [inodes EXCEPT ![fd[p]] = [text |-> text[p], whole |-> whole, mtime |-> ticks']]
  BY DEF Write
<1> DEFINE own == fd[p]
           e   == [text |-> text[p], whole |-> whole, mtime |-> ticks']
<1>2. /\ inodes' = [inodes EXCEPT ![own] = e] /\ ticks' = ticks + 1
      /\ Goto(p, "rename") /\ met' = MetBy(p)
      /\ UNCHANGED <<path, tmp, memory, text, fd, calls, clashed>> /\ step[p] = "write"
  BY <1>1 DEF Write
<1>3. ticks \in Nat /\ ticks' \in Nat /\ text[p] \in Texts
  BY <1>2 DEF SettingsShape, SettingsTypeOK
<1>4. e \in Inodes /\ e.mtime = ticks' /\ e.text = text[p]
  BY <1>1, <1>3 DEF Inodes
<1>5. own \in DOMAIN inodes /\ own # None
  BY <1>2 DEF SettingsShape, SettingsTypeOK, Hands, Writing
<1> HIDE DEF own, e
<1>6. /\ DOMAIN inodes' = DOMAIN inodes /\ inodes'[own] = e
      /\ \A n \in DOMAIN inodes : n # own => inodes'[n] = inodes[n]
  BY <1>2, <1>5
<1>7. /\ step' \in [Procs -> Steps] /\ phase' \in [Procs -> Phases]
      /\ patch' \in [Procs -> SUBSET Fields]
      /\ step'[p] = "rename" /\ patch' = patch /\ \A q \in Procs \ {p} : step'[q] = step[q]
  BY <1>2, OwnTypes, GotoOf DEF SettingsShape, Steps
<1>8. met' \in [Procs -> BOOLEAN]
  BY <1>2, MetTypes DEF SettingsShape
<1>9. \A n \in DOMAIN inodes' : inodes'[n] \in Inodes
  BY <1>4, <1>6 DEF SettingsShape, SettingsTypeOK, Inodes
<1>10. SettingsTypeOK'
  BY <1>2, <1>3, <1>6, <1>7, <1>8, <1>9 DEF SettingsShape, SettingsTypeOK, Inodes
<1>11. SettingsShape'
  BY <1>2, <1>5, <1>6, <1>7, <1>10 DEF SettingsShape, Hands, Writing, own
<1>12. \A n \in DOMAIN inodes : inodes[n].mtime \in Nat /\ inodes[n].mtime < ticks'
  BY <1>2, <1>3 DEF Stamps, SettingsShape, SettingsTypeOK
<1>13. \A q \in Procs : memory[q].mtime \in Nat /\ memory[q].mtime < ticks'
  BY <1>2, <1>3 DEF Stamps, SettingsShape, SettingsTypeOK
<1>14. Stamps'
  <2>3. \A n \in DOMAIN inodes' : 0 < inodes'[n].mtime /\ inodes'[n].mtime <= ticks'
    BY <1>2, <1>3, <1>4, <1>6, <1>12 DEF Stamps
  <2>4. \A n, o \in DOMAIN inodes' : n # o => inodes'[n].mtime # inodes'[o].mtime
    BY <1>3, <1>4, <1>6, <1>12 DEF Stamps
  <2>5. \A q \in Procs : memory'[q].mtime <= ticks'
    BY <1>2, <1>3, <1>13
  <2>6. ASSUME tmp # None, NEW q \in Procs PROVE memory'[q].mtime # inodes'[tmp].mtime
    <3>1. tmp \in DOMAIN inodes
      BY <2>6 DEF SettingsShape, SettingsTypeOK
    <3> QED
      BY <1>2, <1>3, <1>4, <1>6, <1>13, <2>6, <3>1 DEF Stamps
  <2> QED
    BY <1>2, <2>3, <2>4, <2>5, <2>6 DEF Stamps
<1>15. path # None /\ path # own => inodes'[path] = inodes[path]
  BY <1>6 DEF SettingsShape, SettingsTypeOK
<1>16. \A q \in Procs : memory[q].mtime # inodes'[own].mtime
  BY <1>3, <1>4, <1>6, <1>13
<1> QED
  BY <1>2, <1>4, <1>6, <1>7, <1>11, <1>14, <1>15, <1>16 DEF Alone, OpenHands, own

LEMMA RenameStep ==
  ASSUME SettingsShape, Stamps, NEW p \in Procs, Rename(p)
  PROVE  /\ SettingsShape' /\ Stamps' /\ Alone(p) /\ UNCHANGED inodes /\ step[p] = "rename"
         /\ \A q \in Procs \ {p} : fd'[q] = fd[q]
         /\ \/ /\ tmp = None /\ UNCHANGED <<path, tmp, met>>
               /\ \/ step'[p] = "off" /\ memory'[p] = Unknown
                  \/ step'[p] = "idle" /\ memory'[p] = memory[p]
            \/ /\ tmp # None /\ path' = tmp /\ tmp' = None /\ step'[p] = "settle"
               /\ met' = MetBy(p) /\ memory' = memory /\ text' = text /\ patch' = patch
<1>0. OwnOK /\ fd' = [fd EXCEPT ![p] = None] /\ UNCHANGED <<inodes, ticks, calls, clashed>>
      /\ step[p] = "rename"
  BY OwnTypes DEF Rename, SettingsShape
<1>1. fd' \in [Procs -> DOMAIN inodes' \cup {None}] /\ \A q \in Procs \ {p} : fd'[q] = fd[q]
  BY <1>0 DEF SettingsShape, SettingsTypeOK
<1>2. CASE tmp = None
  <2>1. Fail(p) /\ UNCHANGED <<path, tmp, met>>
    BY <1>2 DEF Rename
  <2>2. /\ OwnOK' /\ Alone(p)
        /\ \/ step'[p] = "off" /\ memory'[p] = Unknown
           \/ step'[p] = "idle" /\ memory'[p] = memory[p]
    BY <1>0, <2>1, FailOf
  <2>3. SettingsTypeOK'
    BY <1>0, <1>1, <2>1, <2>2 DEF SettingsShape, SettingsTypeOK, OwnOK, Copies
  <2>4. Hands'
    BY <1>1, <2>2 DEF Hands, SettingsShape, Alone, Writing
  <2>5. Stamps'
    <3>1. memory'[p].mtime \in {memory[p].mtime, Mtime, 0}
      BY <2>2, DefaultTexts
    <3>2. ticks' \in Nat /\ ticks <= ticks'
      BY <1>0 DEF SettingsShape, SettingsTypeOK
    <3> QED
      BY <1>0, <2>1, <2>2, <3>1, <3>2, QuietStamps
  <2> QED
    BY <1>0, <1>1, <1>2, <2>1, <2>2, <2>3, <2>4, <2>5 DEF SettingsShape
<1>3. CASE tmp # None
  <2>1. /\ path' = tmp /\ tmp' = None /\ met' = MetBy(p) /\ Goto(p, "settle")
        /\ UNCHANGED <<text, memory>>
    BY <1>3 DEF Rename
  <2>2. /\ step' \in [Procs -> Steps] /\ phase' \in [Procs -> Phases]
        /\ patch' \in [Procs -> SUBSET Fields]
        /\ step'[p] = "settle" /\ patch' = patch /\ \A q \in Procs \ {p} : step'[q] = step[q]
    BY <1>0, <2>1, GotoOf DEF Steps
  <2>3. met' \in [Procs -> BOOLEAN]
    BY <2>1, MetTypes DEF SettingsShape
  <2>4. SettingsTypeOK'
    BY <1>0, <1>1, <2>1, <2>2, <2>3 DEF SettingsShape, SettingsTypeOK
  <2>5. Hands'
    BY <1>1, <2>1, <2>2 DEF Hands, SettingsShape, Writing
  <2>6. Stamps'
    BY <1>0, <1>3, <2>1 DEF Stamps
  <2> QED
    BY <1>0, <1>1, <1>3, <2>1, <2>2, <2>4, <2>5, <2>6 DEF SettingsShape, Alone
<1> QED
  BY <1>2, <1>3

-----------------------------------------------------------------------------
(* What a process whose request no other has met can count on, wherever it *)
(* is: its copy is that of the file when their mtimes are the same; what   *)
(* it is about to publish differs from the file in the fields of its patch *)
(* only; and the temporary file is the one that it has opened.             *)
Followed(s, m, x, c, f, at, spare, nodes) ==
  /\ s \notin {"open", "write", "rename"} /\ at # None /\ m.mtime = nodes[at].mtime
       => m.text.val = nodes[at].text.val
  /\ s = "stamp" => at # None /\ x.val = nodes[at].text.val
  /\ s = "merge" /\ at # None => m.mtime = nodes[at].mtime
  /\ s \in {"open", "write", "rename"} /\ at # None
       => \A d \in Fields \ c : x.val[d] = nodes[at].text.val[d]
  /\ s = "write" => spare = f
  /\ s = "rename" => spare = f /\ nodes[f].text = x
  /\ s = "settle" => at # None /\ nodes[at].text = x

FollowInv ==
  \A p \in Procs :
    met[p] \/ Followed(step[p], memory[p], text[p], patch[p], fd[p], path, tmp, inodes)

SettingsInv == SettingsShape /\ Stamps /\ FollowInv

(* Steps that leave the files alone, and requests that end without having  *)
(* loaded or published anything.                                           *)
LEMMA QuietFollows ==
  ASSUME FollowInv, NEW p \in Procs, Alone(p), UNCHANGED <<inodes, path, tmp>>,
         \A q \in Procs \ {p} : fd'[q] = fd[q] /\ met'[q] = met[q],
         met'[p] \/ Followed(step'[p], memory'[p], text'[p], patch'[p], fd'[p], path', tmp', inodes')
  PROVE  FollowInv'
<1> SUFFICES ASSUME NEW q \in Procs
             PROVE  met'[q] \/ Followed(step'[q], memory'[q], text'[q], patch'[q], fd'[q], path', tmp', inodes')
  BY DEF FollowInv
<1>1. CASE q = p
  BY <1>1
<1>2. CASE q # p
  <2>1. /\ met'[q] = met[q] /\ fd'[q] = fd[q] /\ memory'[q] = memory[q] /\ step'[q] = step[q]
        /\ patch'[q] = patch[q] /\ text'[q] = text[q] /\ path' = path /\ tmp' = tmp /\ inodes' = inodes
    BY <1>2 DEF Alone
  <2> QED
    BY <2>1 DEF FollowInv
<1> QED
  BY <1>1, <1>2

LEMMA AbsentFollows ==
  ASSUME SettingsShape, Stamps, NEW x, NEW c, NEW f
  PROVE  /\ Followed("off", Unknown, x, c, f, path, tmp, inodes)
         /\ Followed("load", Unknown, x, c, f, path, tmp, inodes)
<1>1. path # None => inodes[path].mtime # 0
  BY DEF SettingsShape, SettingsTypeOK, Stamps
<1> QED
  BY <1>1, DefaultTexts DEF Followed

LEMMA ReturnFollows ==
  ASSUME SettingsShape, Stamps, NEW p \in Procs, NEW m, Returned(p, m), UNCHANGED <<inodes, path, tmp>>,
         m.mtime = Mtime, path # None => m.text.val = inodes[path].text.val
  PROVE  Followed(step'[p], memory'[p], text'[p], patch'[p], fd'[p], path', tmp', inodes')
<1>1. CASE step'[p] = "off" /\ memory'[p] = Unknown
  BY <1>1, AbsentFollows
<1>2. CASE step'[p] \in {"idle", "stat", "merge"} /\ memory'[p] = m
  BY <1>2 DEF Followed, Mtime
<1> QED
  BY <1>1, <1>2 DEF Returned

(* What a writer does to the others: they are met, or they are not in a    *)
(* request and their copy has not the mtime of what is there now.          *)
LEMMA WriterFollows ==
  ASSUME SettingsShape, FollowInv, NEW p \in Procs, Alone(p), met' = MetBy(p),
         \A q \in Procs \ {p} : fd'[q] = fd[q],
         \A q \in Procs : path' # None /\ memory[q].mtime = inodes'[path'].mtime
                            => /\ path # None /\ memory[q].mtime = inodes[path].mtime
                               /\ inodes'[path'].text = inodes[path].text,
         met'[p] \/ Followed(step'[p], memory'[p], text'[p], patch'[p], fd'[p], path', tmp', inodes')
  PROVE  FollowInv'
<1> SUFFICES ASSUME NEW q \in Procs
             PROVE  met'[q] \/ Followed(step'[q], memory'[q], text'[q], patch'[q], fd'[q], path', tmp', inodes')
  BY DEF FollowInv
<1>1. CASE q = p
  BY <1>1
<1>2. CASE q # p
  <2>1. /\ memory'[q] = memory[q] /\ step'[q] = step[q]
        /\ met'[q] = (met[q] \/ step[q] \notin {"off", "idle"})
    BY <1>2 DEF Alone, MetBy
  <2>2. CASE ~met'[q]
    <3>1. /\ step[q] \in {"off", "idle"}
          /\ Followed(step[q], memory[q], text[q], patch[q], fd[q], path, tmp, inodes)
      BY <2>1, <2>2 DEF FollowInv
    <3>2. path' # None /\ memory[q].mtime = inodes'[path'].mtime
            => memory[q].text.val = inodes'[path'].text.val
      BY <3>1 DEF Followed
    <3> QED
      BY <2>1, <3>1, <3>2 DEF Followed
  <2> QED
    BY <2>2
<1> QED
  BY <1>1, <1>2

LEMMA QuietInv ==
  ASSUME SettingsInv, NEW p \in Procs, SettingsShape', Alone(p), UNCHANGED <<inodes, path, tmp>>,
         ticks' \in Nat, ticks <= ticks', memory'[p].mtime \in {memory[p].mtime, Mtime, 0},
         \A q \in Procs \ {p} : fd'[q] = fd[q] /\ met'[q] = met[q],
         met'[p] \/ Followed(step'[p], memory'[p], text'[p], patch'[p], fd'[p], path', tmp', inodes')
  PROVE  SettingsInv'
<1>1. Stamps'
  BY QuietStamps DEF SettingsInv
<1>2. FollowInv'
  BY QuietFollows DEF SettingsInv
<1> QED
  BY <1>1, <1>2 DEF SettingsInv

LEMMA RequestNext ==
  ASSUME SettingsInv, NEW p \in Procs,
         Boot(p) \/ Poll(p) \/ Crash(p) \/ (\E d \in Fields : Change(p, {d}))
  PROVE  SettingsInv'
<1>0. /\ SettingsShape /\ Stamps /\ ticks \in Nat
      /\ met[p] \/ Followed(step[p], memory[p], text[p], patch[p], fd[p], path, tmp, inodes)
      /\ step[p] = "off" => memory[p] = Unknown
  BY DEF SettingsInv, FollowInv, SettingsShape, SettingsTypeOK, Hands
<1>1. CASE Boot(p)
  <2>1. SettingsShape' /\ Alone(p) /\ step'[p] = "load"
    BY <1>0, <1>1, BootStep
  <2>2. /\ UNCHANGED <<inodes, path, tmp, ticks, memory, text, fd>> /\ step[p] = "off"
        /\ \A q \in Procs \ {p} : met'[q] = met[q]
    BY <1>1 DEF Boot, files, StartLoad
  <2>3. Followed(step'[p], memory'[p], text'[p], patch'[p], fd'[p], path', tmp', inodes')
    BY <1>0, <2>1, <2>2, AbsentFollows
  <2> QED
    BY <1>0, <2>1, <2>2, <2>3, QuietInv
<1>2. CASE Poll(p)
  <2>1. SettingsShape' /\ Alone(p) /\ step'[p] = "stat"
    BY <1>0, <1>2, PollStep
  <2>2. UNCHANGED <<inodes, path, tmp, ticks, memory, text, fd, met>> /\ step[p] = "idle"
    BY <1>2 DEF Poll, files
  <2>3. met'[p] \/ Followed(step'[p], memory'[p], text'[p], patch'[p], fd'[p], path', tmp', inodes')
    BY <1>0, <2>1, <2>2 DEF Followed
  <2> QED
    BY <1>0, <2>1, <2>2, <2>3, QuietInv
<1>3. CASE Crash(p)
  <2>1. /\ SettingsShape' /\ Alone(p) /\ step'[p] = "off" /\ memory'[p] = Unknown
        /\ \A q \in Procs \ {p} : fd'[q] = fd[q]
    BY <1>0, <1>3, CrashStep
  <2>2. UNCHANGED <<inodes, path, tmp, ticks, met>>
    BY <1>3 DEF Crash, files
  <2>3. Followed(step'[p], memory'[p], text'[p], patch'[p], fd'[p], path', tmp', inodes')
    BY <1>0, <2>1, <2>2, AbsentFollows
  <2> QED
    BY <1>0, <2>1, <2>2, <2>3, QuietInv, DefaultTexts
<1>4. ASSUME NEW d \in Fields, Change(p, {d}) PROVE SettingsInv'
  <2>1. SettingsShape' /\ Alone(p)
    BY <1>0, <1>4, ChangeStep
  <2>2. /\ UNCHANGED <<inodes, path, tmp, ticks, memory, text, fd>>
        /\ step' = [step EXCEPT ![p] = IF p \in Residents THEN "stat" ELSE "load"]
        /\ met' = [met EXCEPT ![p] = @ /\ p \in Residents] /\ step[p] = Resting(p)
    BY <1>4 DEF Change, files
  <2>3. /\ step'[p] = (IF p \in Residents THEN "stat" ELSE "load")
        /\ met'[p] = (met[p] /\ p \in Residents) /\ \A q \in Procs \ {p} : met'[q] = met[q]
    BY <1>0, <2>2 DEF SettingsShape, SettingsTypeOK
  <2>4. CASE p \in Residents
    <3>1. step[p] = "idle"
      BY <2>2, <2>4 DEF Resting
    <3>2. met'[p] \/ Followed(step'[p], memory'[p], text'[p], patch'[p], fd'[p], path', tmp', inodes')
      <4>1. met'[p] = met[p] /\ step'[p] = "stat" /\ memory'[p] = memory[p]
        BY <1>0, <2>2, <2>3, <2>4 DEF SettingsShape, SettingsTypeOK
      <4>2. CASE met[p]
        BY <4>1, <4>2
      <4>3. CASE ~met[p]
        BY <1>0, <2>2, <3>1, <4>1, <4>3 DEF Followed
      <4> QED
        BY <4>2, <4>3
    <3> QED
      BY <1>0, <2>1, <2>2, <2>3, <3>2, QuietInv
  <2>5. CASE p \notin Residents
    <3>1. step[p] = "off"
      BY <2>2, <2>5 DEF Resting
    <3>2. Followed(step'[p], memory'[p], text'[p], patch'[p], fd'[p], path', tmp', inodes')
      BY <1>0, <2>2, <2>3, <2>5, <3>1, AbsentFollows
    <3> QED
      BY <1>0, <2>1, <2>2, <2>3, <3>2, QuietInv
  <2> QED
    BY <2>4, <2>5
<1> QED
  BY <1>1, <1>2, <1>3, <1>4

LEMMA ReadNext ==
  ASSUME SettingsInv, NEW p \in Procs, Stat(p) \/ Load(p) \/ Stamp(p) \/ Merge(p) \/ Settle(p)
  PROVE  SettingsInv'
<1>0. /\ SettingsShape /\ Stamps /\ ticks \in Nat /\ memory[p] \in Copies
      /\ met[p] \/ Followed(step[p], memory[p], text[p], patch[p], fd[p], path, tmp, inodes)
      /\ step[p] = "off" => memory[p] = Unknown
  BY DEF SettingsInv, FollowInv, SettingsShape, SettingsTypeOK, Hands, Copies
<1>1. CASE Stat(p)
  <2>1. /\ SettingsShape' /\ Alone(p)
        /\ \/ /\ MustReload(p) /\ step'[p] = "load" /\ memory'[p] = memory[p]
              /\ met' = [met EXCEPT ![p] = FALSE]
           \/ ~MustReload(p) /\ Returned(p, memory[p]) /\ met' = met
    BY <1>0, <1>1, StatStep
  <2>2. UNCHANGED <<inodes, path, tmp, ticks, fd>> /\ step[p] = "stat"
    BY <1>1 DEF Stat, files
  <2>3. CASE /\ MustReload(p) /\ step'[p] = "load" /\ memory'[p] = memory[p]
             /\ met' = [met EXCEPT ![p] = FALSE]
    <3>1. Followed(step'[p], memory'[p], text'[p], patch'[p], fd'[p], path', tmp', inodes')
      BY <2>2, <2>3 DEF Followed, MustReload, Mtime
    <3>2. \A q \in Procs \ {p} : met'[q] = met[q]
      BY <1>0, <2>3 DEF SettingsShape, SettingsTypeOK
    <3>3. memory'[p].mtime \in {memory[p].mtime, Mtime, 0}
      BY <2>3
    <3>4. ticks' \in Nat /\ ticks <= ticks' /\ \A q \in Procs \ {p} : fd'[q] = fd[q]
      BY <1>0, <2>2
    <3> QED
      BY <2>1, <2>2, <3>1, <3>2, <3>3, <3>4, QuietInv
  <2>4. CASE ~MustReload(p) /\ Returned(p, memory[p]) /\ met' = met
    <3>1. ASSUME ~met[p]
          PROVE  Followed(step'[p], memory'[p], text'[p], patch'[p], fd'[p], path', tmp', inodes')
      <4>1. memory[p].mtime = Mtime
        BY <2>4 DEF MustReload
      <4>2. path # None => memory[p].text.val = inodes[path].text.val
        BY <1>0, <2>2, <3>1, <4>1 DEF Followed, Mtime
      <4> QED
        BY <1>0, <2>2, <2>4, <4>1, <4>2, ReturnFollows
    <3>2. memory'[p].mtime \in {memory[p].mtime, Mtime, 0}
      BY <2>4, DefaultTexts DEF Returned
    <3> QED
      BY <1>0, <2>1, <2>2, <2>4, <3>1, <3>2, QuietInv
  <2> QED
    BY <2>1, <2>3, <2>4
<1>2. CASE Load(p)
  <2>1. /\ SettingsShape' /\ Alone(p)
        /\ \/ path = None /\ step'[p] = "open" /\ memory'[p] = memory[p]
           \/ path # None /\ step'[p] = "stamp" /\ text'[p] = File /\ memory'[p] = memory[p]
           \/ step'[p] = "off" /\ memory'[p] = Unknown
           \/ step'[p] = "idle" /\ memory'[p] = memory[p]
    BY <1>0, <1>2, LoadStep
  <2>2. UNCHANGED <<inodes, path, tmp, ticks, fd, met>> /\ step[p] = "load"
    BY <1>2 DEF Load, files
  <2>3. memory'[p].mtime \in {memory[p].mtime, Mtime, 0}
    BY <2>1, DefaultTexts
  <2>4. ASSUME ~met[p]
        PROVE  Followed(step'[p], memory'[p], text'[p], patch'[p], fd'[p], path', tmp', inodes')
    <3>1. path # None /\ memory[p].mtime = inodes[path].mtime => memory[p].text.val = inodes[path].text.val
      BY <1>0, <2>2, <2>4 DEF Followed
    <3>2. CASE path = None /\ step'[p] = "open" /\ memory'[p] = memory[p]
      BY <2>2, <3>2 DEF Followed
    <3>3. CASE path # None /\ step'[p] = "stamp" /\ text'[p] = File /\ memory'[p] = memory[p]
      BY <2>2, <3>1, <3>3 DEF Followed, File
    <3>4. CASE step'[p] = "off" /\ memory'[p] = Unknown
      BY <1>0, <2>2, <3>4, AbsentFollows
    <3>5. CASE step'[p] = "idle" /\ memory'[p] = memory[p]
      BY <2>2, <3>1, <3>5 DEF Followed
    <3> QED
      BY <2>1, <3>2, <3>3, <3>4, <3>5
  <2> QED
    BY <1>0, <2>1, <2>2, <2>3, <2>4, QuietInv
<1>3. CASE Stamp(p)
  <2>1. /\ SettingsShape' /\ Alone(p)
        /\ \/ /\ step'[p] = "open" /\ text'[p].val = text[p].val /\ memory'[p].mtime = Mtime
           \/ Returned(p, Loaded(p))
    BY <1>0, <1>3, StampStep
  <2>2. UNCHANGED <<inodes, path, tmp, ticks, fd, met>> /\ step[p] = "stamp"
    BY <1>3 DEF Stamp, files
  <2>3. Loaded(p).mtime = Mtime /\ Loaded(p).text = text[p]
    BY DEF Loaded
  <2>4. memory'[p].mtime \in {memory[p].mtime, Mtime, 0}
    BY <2>1, <2>3, DefaultTexts DEF Returned
  <2>5. ASSUME ~met[p]
        PROVE  Followed(step'[p], memory'[p], text'[p], patch'[p], fd'[p], path', tmp', inodes')
    <3>1. path # None /\ text[p].val = inodes[path].text.val
      BY <1>0, <2>2, <2>5 DEF Followed
    <3>2. CASE step'[p] = "open" /\ text'[p].val = text[p].val /\ memory'[p].mtime = Mtime
      BY <2>2, <3>1, <3>2 DEF Followed
    <3>3. CASE Returned(p, Loaded(p))
      BY <1>0, <2>2, <2>3, <3>1, <3>3, ReturnFollows
    <3> QED
      BY <2>1, <3>2, <3>3
  <2> QED
    BY <1>0, <2>1, <2>2, <2>4, <2>5, QuietInv
<1>4. CASE Merge(p)
  <2>1. /\ SettingsShape' /\ Alone(p)
        /\ step'[p] = "open" /\ patch' = patch /\ memory'[p].mtime = memory[p].mtime
        /\ \A d \in Fields \ patch[p] : text'[p].val[d] = memory[p].text.val[d]
    BY <1>0, <1>4, MergeStep
  <2>2. UNCHANGED <<inodes, path, tmp, fd, met>> /\ step[p] = "merge" /\ ticks' = ticks + 1
    BY <1>4 DEF Merge
  <2>3. ticks' \in Nat /\ ticks <= ticks'
    BY <1>0, <2>2
  <2>4. ASSUME ~met[p]
        PROVE  Followed(step'[p], memory'[p], text'[p], patch'[p], fd'[p], path', tmp', inodes')
    <3>1. path # None => memory[p].text.val = inodes[path].text.val
      BY <1>0, <2>2, <2>4 DEF Followed
    <3> QED
      BY <2>1, <2>2, <3>1 DEF Followed
  <2> QED
    BY <1>0, <2>1, <2>2, <2>3, <2>4, QuietInv
<1>5. CASE Settle(p)
  <2>1. SettingsShape' /\ Alone(p) /\ Returned(p, Loaded(p))
    BY <1>0, <1>5, SettleStep
  <2>2. UNCHANGED <<inodes, path, tmp, ticks, fd, met>> /\ step[p] = "settle"
    BY <1>5 DEF Settle, files
  <2>3. Loaded(p).mtime = Mtime /\ Loaded(p).text = text[p]
    BY DEF Loaded
  <2>4. memory'[p].mtime \in {memory[p].mtime, Mtime, 0}
    BY <2>1, <2>3, DefaultTexts DEF Returned
  <2>5. ASSUME ~met[p]
        PROVE  Followed(step'[p], memory'[p], text'[p], patch'[p], fd'[p], path', tmp', inodes')
    <3>1. path # None /\ text[p].val = inodes[path].text.val
      BY <1>0, <2>2, <2>5 DEF Followed
    <3> QED
      BY <1>0, <2>1, <2>2, <2>3, <3>1, ReturnFollows
  <2> QED
    BY <1>0, <2>1, <2>2, <2>4, <2>5, QuietInv
<1> QED
  BY <1>1, <1>2, <1>3, <1>4, <1>5

LEMMA PublishNext ==
  ASSUME SettingsInv, NEW p \in Procs, Open(p) \/ Write(p) \/ Rename(p)
  PROVE  SettingsInv'
<1>0. /\ SettingsShape /\ Stamps /\ FollowInv /\ ticks \in Nat
      /\ met[p] \/ Followed(step[p], memory[p], text[p], patch[p], fd[p], path, tmp, inodes)
      /\ met \in [Procs -> BOOLEAN]
  BY DEF SettingsInv, FollowInv, SettingsShape, SettingsTypeOK
<1>a. MetBy(p)[p] = met[p]
  BY <1>0 DEF MetBy
<1>1. CASE Open(p)
  <2>1. /\ SettingsShape' /\ Stamps' /\ Alone(p) /\ OpenHands(p)
        /\ path' = path /\ (path # None => inodes'[path] = inodes[path])
        /\ step'[p] = "write" /\ fd'[p] = tmp' /\ text' = text /\ patch' = patch
    BY <1>0, <1>1, OpenStep
  <2>2. met' = MetBy(p) /\ step[p] = "open"
    BY <1>1 DEF Open
  <2>3. ASSUME ~met[p]
        PROVE  Followed(step'[p], memory'[p], text'[p], patch'[p], fd'[p], path', tmp', inodes')
    BY <1>0, <2>1, <2>2, <2>3 DEF Followed
  <2>4. FollowInv'
    BY <1>0, <1>a, <2>1, <2>2, <2>3, WriterFollows DEF OpenHands
  <2> QED
    BY <2>1, <2>4 DEF SettingsInv
<1>2. CASE Write(p)
  <2>1. /\ SettingsShape' /\ Stamps' /\ Alone(p) /\ OpenHands(p)
        /\ path' = path /\ (path # None /\ path # fd[p] => inodes'[path] = inodes[path])
        /\ path # None => \A q \in Procs : path = fd[p] => memory[q].mtime # inodes'[path].mtime
        /\ step'[p] = "rename" /\ fd'[p] = fd[p] /\ tmp' = tmp /\ text' = text /\ patch' = patch
        /\ inodes'[fd[p]].text = text[p] /\ step[p] = "write"
    BY <1>0, <1>2, WriteStep
  <2>2. met' = MetBy(p)
    BY <1>2 DEF Write
  <2>3. ASSUME ~met[p]
        PROVE  Followed(step'[p], memory'[p], text'[p], patch'[p], fd'[p], path', tmp', inodes')
    <3>1. tmp = fd[p] /\ (path # None => \A d \in Fields \ patch[p] : text[p].val[d] = inodes[path].text.val[d])
      BY <1>0, <2>1, <2>3 DEF Followed
    <3>2. path # None => path # fd[p]
      BY <1>0, <3>1 DEF Stamps
    <3> QED
      BY <2>1, <3>1, <3>2 DEF Followed
  <2>4. FollowInv'
    BY <1>0, <1>a, <2>1, <2>2, <2>3, WriterFollows DEF OpenHands
  <2> QED
    BY <2>1, <2>4 DEF SettingsInv
<1>3. CASE Rename(p)
  <2>1. /\ SettingsShape' /\ Stamps' /\ Alone(p) /\ UNCHANGED inodes /\ step[p] = "rename"
        /\ \A q \in Procs \ {p} : fd'[q] = fd[q]
        /\ \/ /\ tmp = None /\ UNCHANGED <<path, tmp, met>>
              /\ \/ step'[p] = "off" /\ memory'[p] = Unknown
                 \/ step'[p] = "idle" /\ memory'[p] = memory[p]
           \/ /\ tmp # None /\ path' = tmp /\ tmp' = None /\ step'[p] = "settle"
              /\ met' = MetBy(p) /\ memory' = memory /\ text' = text /\ patch' = patch
    BY <1>0, <1>3, RenameStep
  <2>2. fd[p] # None
    BY <1>0, <2>1 DEF SettingsShape, Hands, Writing
  <2>3. CASE tmp = None
    <3>1. met[p]
      BY <1>0, <2>1, <2>2, <2>3 DEF Followed
    <3>2. UNCHANGED <<path, tmp, met>>
      BY <2>1, <2>3
    <3>3. FollowInv'
      BY <1>0, <2>1, <3>1, <3>2, QuietFollows
    <3> QED
      BY <2>1, <3>3 DEF SettingsInv
  <2>4. CASE tmp # None
    <3>1. /\ path' = tmp /\ tmp' = None /\ step'[p] = "settle"
          /\ met' = MetBy(p) /\ memory' = memory /\ text' = text /\ patch' = patch
      BY <2>1, <2>4
    <3>2. \A q \in Procs : memory[q].mtime # inodes'[path'].mtime
      BY <1>0, <2>1, <2>4, <3>1 DEF Stamps
    <3>3. ASSUME ~met[p]
          PROVE  Followed(step'[p], memory'[p], text'[p], patch'[p], fd'[p], path', tmp', inodes')
      <4>1. inodes[tmp].text = text[p]
        BY <1>0, <2>1, <3>3 DEF Followed
      <4> QED
        BY <2>1, <2>4, <3>1, <3>2, <4>1 DEF Followed
    <3>4. FollowInv'
      BY <1>0, <1>a, <2>1, <3>1, <3>2, <3>3, WriterFollows
    <3> QED
      BY <2>1, <3>4 DEF SettingsInv
  <2> QED
    BY <2>3, <2>4
<1> QED
  BY <1>1, <1>2, <1>3

LEMMA SettingsNextInv == SettingsInv /\ [SettingsNext]_settingsVars => SettingsInv'
<1> SUFFICES ASSUME SettingsInv, [SettingsNext]_settingsVars PROVE SettingsInv'
  OBVIOUS
<1>1. CASE UNCHANGED settingsVars
  BY <1>1 DEF settingsVars, SettingsInv, SettingsShape, SettingsTypeOK, Hands, Stamps, FollowInv
<1>2. ASSUME NEW p \in Procs,
             \/ Boot(p) \/ Poll(p) \/ Crash(p) \/ SettingsStep(p)
             \/ \E d \in Fields : Change(p, {d})
      PROVE  SettingsInv'
  BY <1>2, RequestNext, ReadNext, PublishNext DEF SettingsStep
<1> QED
  BY <1>1, <1>2 DEF SettingsNext

LEMMA SettingsInitInv == SettingsInit => SettingsInv
<1> SUFFICES ASSUME SettingsInit PROVE SettingsInv
  OBVIOUS
<1>1. PICK onDisk \in BOOLEAN, legacy \in BOOLEAN :
        LET file == [text |-> [Defaults EXCEPT !.legacy = legacy], whole |-> TRUE, mtime |-> 1]
            up   == onDisk /\ ~legacy
        IN  /\ inodes = [n \in IF onDisk THEN {1} ELSE {} |-> file]
            /\ calls = SettingsCalls[IF up THEN "up" ELSE "starting"]
            /\ path = IF onDisk THEN 1 ELSE None
            /\ memory = [p \in Procs |-> IF up /\ p \in Residents
                                         THEN [text |-> Defaults, mtime |-> 1] ELSE Unknown]
            /\ step = [p \in Procs |-> IF up THEN Resting(p) ELSE "off"]
            /\ phase = [p \in Procs |-> IF up /\ p \in Residents THEN "get" ELSE "make"]
  BY DEF SettingsInit
<1> DEFINE file == [text |-> [Defaults EXCEPT !.legacy = legacy], whole |-> TRUE, mtime |-> 1]
           up   == onDisk /\ ~legacy
<1>2. file \in Inodes /\ file.mtime = 1 /\ (up => file.text = Defaults)
  BY DEF Inodes, Defaults, Texts
<1>3. /\ inodes = [n \in IF onDisk THEN {1} ELSE {} |-> file]
      /\ calls \in Nat /\ path = (IF onDisk THEN 1 ELSE None)
  BY <1>1, SettingsAssumption
<1>4. ASSUME NEW p \in Procs
      PROVE  \/ /\ up /\ step[p] = "idle" /\ phase[p] = "get"
                /\ memory[p] = [text |-> Defaults, mtime |-> 1]
             \/ step[p] = "off" /\ phase[p] = "make" /\ memory[p] = Unknown
  BY <1>1 DEF Resting
<1> HIDE DEF file
<1>5. /\ tmp = None /\ patch = [p \in Procs |-> {}] /\ text = [p \in Procs |-> Defaults]
      /\ fd = [p \in Procs |-> None] /\ ticks = 1 /\ met = [p \in Procs |-> FALSE] /\ clashed = FALSE
  BY DEF SettingsInit
<1>6. [text |-> Defaults, mtime |-> 1] \in Copies
  BY DefaultTexts DEF Copies
<1>7. memory \in [Procs -> Copies] /\ step \in [Procs -> Steps] /\ phase \in [Procs -> Phases]
  BY <1>1, <1>4, <1>6, DefaultTexts DEF Steps, Phases
<1>8. /\ DOMAIN inodes \subseteq {1} /\ (onDisk => 1 \in DOMAIN inodes)
      /\ \A n \in DOMAIN inodes : inodes[n] = file
  BY <1>3
<1>9. {path, tmp} \subseteq DOMAIN inodes \cup {None} /\ fd \in [Procs -> DOMAIN inodes \cup {None}]
  BY <1>3, <1>5, <1>8
<1>10. patch \in [Procs -> SUBSET Fields] /\ text \in [Procs -> Texts] /\ met \in [Procs -> BOOLEAN]
  BY <1>5, DefaultTexts
<1>11. SettingsTypeOK
  BY <1>2, <1>3, <1>5, <1>7, <1>8, <1>9, <1>10 DEF SettingsTypeOK, Inodes, Copies
<1>12. SettingsShape
  BY <1>4, <1>8, <1>11 DEF SettingsShape, Hands, Writing
<1>13. \A p \in Procs : memory[p].mtime \in {0, 1}
  BY <1>4, DefaultTexts
<1>14. Stamps
  BY <1>2, <1>5, <1>8, <1>13 DEF Stamps
<1>15. ASSUME NEW p \in Procs
       PROVE  Followed(step[p], memory[p], text[p], patch[p], fd[p], path, tmp, inodes)
  <2>1. CASE step[p] = "off" /\ memory[p] = Unknown
    BY <1>12, <1>14, <2>1, AbsentFollows
  <2>2. CASE up /\ step[p] = "idle" /\ memory[p] = [text |-> Defaults, mtime |-> 1]
    <3>1. path = 1 /\ inodes[path].text = Defaults
      BY <1>2, <1>3, <1>8, <2>2
    <3> QED
      BY <2>2, <3>1 DEF Followed
  <2> QED
    BY <1>4, <2>1, <2>2
<1> QED
  BY <1>12, <1>14, <1>15 DEF SettingsInv, FollowInv

(* Only replace() brings a writer from its temporary file to the stat.     *)
LEMMA RenamerRenames ==
  ASSUME SettingsInv, [SettingsNext]_settingsVars, NEW p \in Procs,
         step[p] = "rename", step'[p] = "settle"
  PROVE  Rename(p)
<1>0. SettingsShape /\ Stamps
  BY DEF SettingsInv
<1>1. ~UNCHANGED settingsVars
  BY DEF settingsVars
<1>2. PICK q \in Procs : \/ Boot(q) \/ Poll(q) \/ Crash(q) \/ SettingsStep(q)
                         \/ \E d \in Fields : Change(q, {d})
  BY <1>1 DEF SettingsNext
<1>3. Alone(q)
  BY <1>0, <1>2, BootStep, PollStep, CrashStep, ChangeStep, StatStep, LoadStep, StampStep, MergeStep,
     OpenStep, WriteStep, RenameStep, SettleStep DEF SettingsStep
<1>4. q = p
  BY <1>3 DEF Alone
<1>5. ~Crash(p)
  BY <1>0, CrashStep
<1> QED
  BY <1>2, <1>4, <1>5
     DEF SettingsStep, Boot, Poll, Change, Resting, Stat, Load, Stamp, Merge, Open, Write, Settle

(* What a process publishes differs from what was there in the fields it   *)
(* was asked to change, unless another process wrote since it read the     *)
(* file, although all of it is published and the patch is applied to a     *)
(* copy that is checked against the mtime only (update_settings,           *)
(* _write_json).                                                           *)
THEOREM ChangesCorrect == AdminSpec => ChangesSurvive
<1> DEFINE A == \A p \in Procs :
        (/\ step[p] = "rename" /\ step'[p] = "settle"
         /\ path # None /\ ~met[p])
        => \A f \in Fields \ patch[p] :
             inodes'[path'].text.val[f] = inodes[path].text.val[f]
<1>1. AdminInit => SettingsInv
  BY SettingsInitInv DEF AdminInit
<1>2. SettingsInv /\ [AdminNext]_adminVars => SettingsInv'
  BY SettingsMoves, SettingsNextInv
<1>3. SettingsInv /\ [AdminNext]_adminVars => [A]_settingsVars
  <2> SUFFICES ASSUME SettingsInv, [AdminNext]_adminVars, NEW p \in Procs,
                      step[p] = "rename", step'[p] = "settle", path # None, ~met[p],
                      NEW f \in Fields \ patch[p]
               PROVE  inodes'[path'].text.val[f] = inodes[path].text.val[f]
    OBVIOUS
  <2>1. Rename(p)
    BY SettingsMoves, RenamerRenames
  <2>2. tmp # None /\ path' = tmp /\ UNCHANGED inodes
    BY <2>1, RenameStep DEF SettingsInv
  <2>3. Followed(step[p], memory[p], text[p], patch[p], fd[p], path, tmp, inodes)
    BY DEF SettingsInv, FollowInv
  <2>4. inodes[tmp].text = text[p] /\ text[p].val[f] = inodes[path].text.val[f]
    BY <2>3 DEF Followed
  <2> QED
    BY <2>2, <2>4
<1>4. ChangesSurvive <=> [][A]_settingsVars
  BY DEF ChangesSurvive
<1> HIDE DEF A
<1> QED
  BY <1>1, <1>2, <1>3, <1>4, PTL DEF AdminSpec

-----------------------------------------------------------------------------
(* The licence (Licence).                                                  *)

LEMMA LicenceMoves == [AdminNext]_adminVars => [LicenceNext]_licenceVars
BY DEF AdminNext, adminVars, SettingsMove, LicenceMove, TeardownMove, LabMove

AskPlaces == {"idle", "ask", "open", "write", "rename", "stat", "remember", "apply", "lock"}
Papers    == {Nothing, "spool", "license", "gone"}
AskShape  == [at: AskPlaces, about: KeyKinds \cup {"given", Nothing}, check: Verdicts,
              stamped: BOOLEAN, file: Papers]

(* Types, of which those of asking and of means say a little more.         *)
Facts ==
  /\ key \in KeyKinds /\ verdict \in Verdicts
  /\ {license, spool} \subseteq Verdicts \cup {Torn, Nothing}
  /\ known \in [Sites -> Verdicts \cup {Nothing}] /\ current \in [Sites -> BOOLEAN]
  /\ print \in {"none", "old", "current"}
  /\ running \in [Sites -> {"off", "starting", "on"}] /\ shut \in [Sites -> BOOLEAN]
WellFormed(a) ==
  /\ a \in [Asking -> AskShape]
  /\ \A t \in Asking : a[t].at = "ask" => a[t].about \in KeyKinds \cup {"given"}
LicenceShape == Facts /\ WellFormed(asking) /\ means \in [LicenceKinds -> Nat]

LEMMA FreeShape == Free \in AskShape /\ Free.at = "idle"
BY DEF Free, AskShape, AskPlaces, KeyKinds, Verdicts, Papers, Nothing

LEMMA FoundIn ==
  ASSUME NEW about \in KeyKinds \cup {"given"}, verdict \in Verdicts
  PROVE  Found(about) \subseteq Verdicts
<1>1. CASE about = "none"
  BY <1>1 DEF Found, Verdicts
<1>2. CASE about = "admin"
  BY <1>2 DEF Found, Verdicts
<1>3. CASE about = "client"
  BY <1>3 DEF Found
<1>4. CASE about = "given"
  BY <1>4 DEF Found
<1> QED
  BY <1>1, <1>2, <1>3, <1>4 DEF KeyKinds

(* What a thread does next keeps the parts of all the checks.              *)
LEMMA AskingShape ==
  ASSUME LicenceShape, NEW t \in Asking, NEW r \in AskShape,
         r.at = "ask" => r.about \in KeyKinds \cup {"given"}
  PROVE  WellFormed([asking EXCEPT ![t] = r])
BY DEF LicenceShape, WellFormed

LEMMA ToShape ==
  ASSUME LicenceShape, NEW t \in Asking, NEW pc \in AskPlaces \ {"ask"}
  PROVE  WellFormed([asking EXCEPT ![t].at = pc])
<1> DEFINE r == [asking[t] EXCEPT !.at = pc]
<1>1. asking[t] \in AskShape
  BY DEF LicenceShape, WellFormed
<1>2. r \in AskShape /\ r.at # "ask"
  BY <1>1 DEF AskShape
<1>3. [asking EXCEPT ![t].at = pc] = [asking EXCEPT ![t] = r]
  OBVIOUS
<1> HIDE DEF r
<1> QED
  BY <1>2, <1>3, AskingShape

LEMMA StartCheckShape ==
  ASSUME LicenceShape, NEW t \in Asking, NEW about \in KeyKinds \cup {"given"}, NEW asks \in {0, 1},
         StartCheck(t, about, asks)
  PROVE  WellFormed(asking') /\ means' \in [LicenceKinds -> Nat]
<1>1. PICK overlaps \in {0, 1} :
        /\ means.ask >= asks /\ means.overlap >= overlaps
        /\ means' = [means EXCEPT !.ask = @ - asks, !.overlap = @ - overlaps]
        /\ asking' = [asking EXCEPT ![t] = [Free EXCEPT !.at = "ask", !.about = about]]
  BY DEF StartCheck
<1>2. means' \in [LicenceKinds -> Nat]
  <2>1. means["ask"] \in Nat /\ means["overlap"] \in Nat
    BY DEF LicenceShape, LicenceKinds
  <2>2. means["ask"] - asks \in Nat /\ means["overlap"] - overlaps \in Nat
    BY <1>1, <2>1
  <2> QED
    BY <1>1, <2>2 DEF LicenceShape, LicenceKinds
<1> DEFINE r == [Free EXCEPT !.at = "ask", !.about = about]
<1>3. r \in AskShape /\ r.about = about /\ asking' = [asking EXCEPT ![t] = r]
  BY <1>1, FreeShape DEF AskShape, AskPlaces
<1> HIDE DEF r
<1> QED
  BY <1>2, <1>3, AskingShape DEF WellFormed

LEMMA SpentShape ==
  ASSUME LicenceShape, NEW kind \in LicenceKinds, Costs(kind)
  PROVE  means' \in [LicenceKinds -> Nat]
BY DEF LicenceShape, Costs

LEMMA LastCheckIn ==
  ASSUME LicenceShape, NEW s \in Sites
  PROVE  LastCheck(s) \in Verdicts \cup {Nothing}
BY DEF LicenceShape, Facts, LastCheck, Reads, Whole

LEMMA RefreshShape ==
  ASSUME LicenceShape, NEW s \in Sites, Refresh(s)
  PROVE  known' \in [Sites -> Verdicts \cup {Nothing}] /\ current' \in [Sites -> BOOLEAN]
<1>1. known' = [known EXCEPT ![s] = LastCheck(s)] /\ current' = [current EXCEPT ![s] = @ \/ Reads(s)]
  BY DEF Refresh
<1>2. known \in [Sites -> Verdicts \cup {Nothing}] /\ current \in [Sites -> BOOLEAN]
  BY DEF LicenceShape, Facts
<1>3. (current[s] \/ Reads(s)) \in BOOLEAN
  OBVIOUS
<1> QED
  BY <1>1, <1>2, <1>3, LastCheckIn

LEMMA FiledShape ==
  ASSUME NEW a, WellFormed(a)
  PROVE  WellFormed(Unstamp(a)) /\ WellFormed(Renamed(a))
<1>1. ASSUME NEW t \in Asking
      PROVE  /\ [a[t] EXCEPT !.stamped = FALSE] \in AskShape
             /\ [a[t] EXCEPT !.stamped = FALSE].at = a[t].at
             /\ [a[t] EXCEPT !.stamped = FALSE].about = a[t].about
  BY DEF WellFormed, AskShape
<1>2. WellFormed(Unstamp(a))
  BY <1>1 DEF WellFormed, Unstamp
<1>3. ASSUME NEW t \in Asking, NEW w \in Papers
      PROVE  /\ [a[t] EXCEPT !.file = w] \in AskShape
             /\ [a[t] EXCEPT !.file = w].at = a[t].at
             /\ [a[t] EXCEPT !.file = w].about = a[t].about
  BY DEF WellFormed, AskShape
<1> DEFINE next(w) == IF w = "spool" THEN "license" ELSE IF w = "license" THEN "gone" ELSE w
           b       == [t \in Asking |-> next(a[t].file)]
<1>4. Renamed(a) = [t \in Asking |-> [a[t] EXCEPT !.file = b[t]]]
  BY DEF Renamed
<1>5. ASSUME NEW t \in Asking PROVE b[t] \in Papers
  BY DEF WellFormed, AskShape, Papers
<1> HIDE DEF next, b
<1> DEFINE e(t) == [a[t] EXCEPT !.file = b[t]]
<1>6. \A t \in Asking : e(t) \in AskShape /\ e(t).at = a[t].at /\ e(t).about = a[t].about
  BY <1>3, <1>5
<1>7. Renamed(a) = [t \in Asking |-> e(t)]
  BY <1>4
<1> HIDE DEF e
<1>8. WellFormed(Renamed(a))
  BY <1>6, <1>7 DEF WellFormed
<1> QED
  BY <1>2, <1>8

LEMMA WriteShape ==
  ASSUME LicenceShape, NEW t \in Asking, WriteCheck(t)
  PROVE  LicenceShape'
<1>0. Facts /\ WellFormed(asking) /\ means \in [LicenceKinds -> Nat] /\ asking[t].check \in Verdicts
  BY DEF LicenceShape, WellFormed, AskShape
<1>1. \A old : Overwrites(t, old) \subseteq Verdicts \cup {Torn, Nothing}
  BY <1>0 DEF Overwrites
<1>2. WellFormed([asking EXCEPT ![t].at = "rename"])
  BY ToShape DEF WellFormed, AskPlaces
<1>3. UNCHANGED <<key, verdict, known, print, running, shut, means>>
  BY DEF WriteCheck
<1>4. CASE spool' \in Overwrites(t, spool) /\ To(t, "rename") /\ UNCHANGED <<license, current>>
  BY <1>0, <1>1, <1>2, <1>3, <1>4 DEF LicenceShape, Facts, WellFormed, To
<1>5. CASE /\ license' \in Overwrites(t, license) /\ NewMtime
           /\ asking' = Unstamp([asking EXCEPT ![t].at = "rename"]) /\ UNCHANGED spool
  <2>1. WellFormed(asking')
    BY <1>2, <1>5, FiledShape
  <2>2. current' \in [Sites -> BOOLEAN]
    BY <1>5 DEF NewMtime
  <2>3. Facts'
    BY <1>0, <1>1, <1>3, <1>5, <2>2 DEF Facts
  <2> QED
    BY <1>0, <1>3, <2>1, <2>3 DEF LicenceShape, WellFormed
<1>6. CASE To(t, "rename") /\ UNCHANGED <<license, spool, current>>
  BY <1>0, <1>2, <1>3, <1>6 DEF LicenceShape, Facts, WellFormed, To
<1> QED
  BY <1>4, <1>5, <1>6 DEF WriteCheck

LEMMA RenameShape ==
  ASSUME LicenceShape, NEW t \in Asking, RenameCheck(t)
  PROVE  LicenceShape'
<1>0. Facts /\ WellFormed(asking) /\ means \in [LicenceKinds -> Nat] /\ asking[t] \in AskShape
  BY DEF LicenceShape, WellFormed
<1>1. UNCHANGED <<key, verdict, known, print, shut, means>>
  BY DEF RenameCheck
<1>2. CASE spool = Nothing
  <2>1. /\ asking' = [asking EXCEPT ![t] = Free] /\ UNCHANGED <<license, spool, current>>
        /\ running' = [s \in Sites |-> IF s = SiteOf(t) /\ running[s] = "starting"
                                       THEN "off" ELSE running[s]]
    BY <1>2 DEF RenameCheck
  <2>2. WellFormed(asking')
    BY <2>1, FreeShape, AskingShape DEF WellFormed
  <2>3. running' \in [Sites -> {"off", "starting", "on"}]
    BY <1>0, <2>1 DEF Facts
  <2>4. Facts'
    BY <1>0, <1>1, <2>1, <2>3 DEF Facts
  <2> QED
    BY <1>0, <1>1, <2>2, <2>4 DEF LicenceShape
<1>3. CASE spool # Nothing
  <2> DEFINE r == [[asking[t] EXCEPT !.at = "stat"] EXCEPT !.file = Nothing]
             a == [asking EXCEPT ![t] = r]
  <2>1. /\ asking' = Unstamp(Renamed([asking EXCEPT ![t].at = "stat", ![t].file = Nothing]))
        /\ license' = spool /\ spool' = Nothing /\ NewMtime /\ UNCHANGED running
    BY <1>3 DEF RenameCheck
  <2>2. [asking EXCEPT ![t].at = "stat", ![t].file = Nothing] = a
    BY <1>0 DEF WellFormed
  <2>3. r \in AskShape /\ r.at = "stat"
    BY <1>0 DEF AskShape, AskPlaces, Papers
  <2> HIDE DEF r
  <2>4. WellFormed(a)
    BY <2>3, AskingShape DEF WellFormed
  <2> HIDE DEF a
  <2>5. WellFormed(Renamed(a))
    BY <2>4, FiledShape
  <2>6. WellFormed(asking')
    BY <2>1, <2>2, <2>5, FiledShape
  <2>7. Facts'
    BY <1>0, <1>1, <2>1 DEF Facts, NewMtime
  <2> QED
    BY <1>0, <1>1, <2>6, <2>7 DEF LicenceShape, WellFormed
<1> QED
  BY <1>2, <1>3

LEMMA AskShapes ==
  ASSUME LicenceShape, NEW t \in Asking, BillingSays(t) \/ OpenSpool(t) \/ StatCheck(t)
  PROVE  LicenceShape'
<1>0. Facts /\ WellFormed(asking) /\ means \in [LicenceKinds -> Nat] /\ asking[t] \in AskShape
  BY DEF LicenceShape, WellFormed
<1>1. CASE BillingSays(t)
  <2>0. asking[t].about \in KeyKinds \cup {"given"}
    BY <1>0, <1>1 DEF BillingSays, In, WellFormed
  <2>1. UNCHANGED <<key, verdict, paper, known, current, print, running, shut>>
    BY <1>1 DEF BillingSays
  <2>2. ASSUME NEW v \in Found(asking[t].about),
               asking' = [asking EXCEPT ![t] = [Free EXCEPT !.at = "open", !.check = v]]
        PROVE  WellFormed(asking')
    <3> DEFINE r == [Free EXCEPT !.at = "open", !.check = v]
    <3>1. v \in Verdicts
      BY <1>0, <2>0, <2>2, FoundIn DEF Facts
    <3>2. r \in AskShape /\ r.at = "open" /\ asking' = [asking EXCEPT ![t] = r]
      BY <2>2, <3>1, FreeShape DEF AskShape, AskPlaces
    <3> HIDE DEF r
    <3> QED
      BY <3>2, AskingShape DEF WellFormed
  <2>3. ASSUME asking' = [asking EXCEPT ![t] = [Free EXCEPT !.at = "open"]] PROVE WellFormed(asking')
    <3> DEFINE r == [Free EXCEPT !.at = "open"]
    <3>2. r \in AskShape /\ r.at = "open" /\ asking' = [asking EXCEPT ![t] = r]
      BY <2>3, FreeShape DEF AskShape, AskPlaces
    <3> HIDE DEF r
    <3> QED
      BY <3>2, AskingShape DEF WellFormed
  <2>4. WellFormed(asking')
    BY <1>1, <2>2, <2>3 DEF BillingSays
  <2>5. means' \in [LicenceKinds -> Nat]
    BY <1>0, <1>1, SpentShape DEF BillingSays, LicenceKinds
  <2> QED
    BY <1>0, <2>1, <2>4, <2>5 DEF LicenceShape, Facts, paper
<1>2. CASE OpenSpool(t)
  <2> DEFINE r == [[asking[t] EXCEPT !.at = "write"] EXCEPT !.file = "spool"]
  <2>1. /\ spool' = Torn /\ asking' = [asking EXCEPT ![t].at = "write", ![t].file = "spool"]
        /\ UNCHANGED <<key, verdict, license, known, current, print, running, shut, means>>
    BY <1>2 DEF OpenSpool
  <2>2. asking' = [asking EXCEPT ![t] = r]
    BY <1>0, <2>1 DEF WellFormed
  <2>3. r \in AskShape /\ r.at = "write"
    BY <1>0 DEF AskShape, AskPlaces, Papers
  <2> HIDE DEF r
  <2>4. WellFormed(asking')
    BY <2>2, <2>3, AskingShape DEF WellFormed
  <2> QED
    BY <1>0, <2>1, <2>4 DEF LicenceShape, Facts
<1>3. CASE StatCheck(t)
  <2> DEFINE r == [[asking[t] EXCEPT !.at = "remember"] EXCEPT !.stamped = TRUE]
  <2>1. /\ asking' = [asking EXCEPT ![t].at = "remember", ![t].stamped = TRUE]
        /\ UNCHANGED <<key, verdict, paper, known, current, print, running, shut, means>>
    BY <1>3 DEF StatCheck
  <2>2. asking' = [asking EXCEPT ![t] = r]
    BY <1>0, <2>1 DEF WellFormed
  <2>3. r \in AskShape /\ r.at = "remember"
    BY <1>0 DEF AskShape, AskPlaces
  <2> HIDE DEF r
  <2>4. WellFormed(asking')
    BY <2>2, <2>3, AskingShape DEF WellFormed
  <2> QED
    BY <1>0, <2>1, <2>4 DEF LicenceShape, Facts, paper
<1> QED
  BY <1>1, <1>2, <1>3

LEMMA TakenShapes ==
  ASSUME LicenceShape, NEW t \in Asking, Remember(t) \/ ApplyCheck(t)
  PROVE  LicenceShape'
<1>0. Facts /\ WellFormed(asking) /\ means \in [LicenceKinds -> Nat]
      /\ asking[t].check \in Verdicts /\ asking[t].stamped \in BOOLEAN
  BY DEF LicenceShape, WellFormed, AskShape
<1>1. CASE Remember(t)
  <2>1. WellFormed(asking')
    BY <1>1, ToShape DEF Remember, To, WellFormed, AskPlaces
  <2>2. known' \in [Sites -> Verdicts \cup {Nothing}] /\ current' \in [Sites -> BOOLEAN]
    BY <1>0, <1>1 DEF Remember, Facts
  <2> QED
    BY <1>0, <1>1, <2>1, <2>2 DEF LicenceShape, Remember, Facts, paper
<1>2. CASE ApplyCheck(t)
  <2>1. WellFormed(asking')
    BY <1>2, FreeShape, AskingShape DEF ApplyCheck, WellFormed
  <2>2. (~Valid(asking[t].check)) \in BOOLEAN
    BY DEF Valid
  <2>3. running' \in [Sites -> {"off", "starting", "on"}] /\ shut' \in [Sites -> BOOLEAN]
    BY <1>0, <1>2, <2>2 DEF ApplyCheck, Facts, Locks
  <2> QED
    BY <1>0, <1>2, <2>1, <2>3 DEF LicenceShape, ApplyCheck, Facts, paper
<1> QED
  BY <1>1, <1>2

LEMMA WatchShapes ==
  ASSUME LicenceShape, PollFingerprint \/ WatchLocks \/ WatchRechecks \/ VerdictChanges
  PROVE  LicenceShape'
<1>0. Facts /\ WellFormed(asking) /\ means \in [LicenceKinds -> Nat]
      /\ {Recheck, WatchDog} \subseteq Asking /\ "video" \in Sites
  BY DEF LicenceShape, Asking, Sites
<1>1. CASE PollFingerprint
  <2>1. known' \in [Sites -> Verdicts \cup {Nothing}] /\ current' \in [Sites -> BOOLEAN]
    BY <1>0, <1>1, RefreshShape DEF PollFingerprint
  <2>2. WellFormed(asking')
    BY <1>0, <1>1, ToShape DEF PollFingerprint, To, AskPlaces
  <2> QED
    BY <1>0, <1>1, <2>1, <2>2 DEF PollFingerprint, LicenceShape, Facts, paper
<1>2. CASE WatchLocks
  <2>1. known' \in [Sites -> Verdicts \cup {Nothing}] /\ current' \in [Sites -> BOOLEAN]
    BY <1>0, <1>2, RefreshShape DEF WatchLocks
  <2>2. WellFormed(asking')
    BY <1>0, <1>2, ToShape DEF WatchLocks, To, AskPlaces
  <2>3. (~Valid(LastCheck("video"))) \in BOOLEAN
    BY DEF Valid
  <2>4. shut' \in [Sites -> BOOLEAN] /\ print' \in {"none", "old", "current"}
    BY <1>0, <1>2, <2>3 DEF WatchLocks, Locks, Facts
  <2>5. UNCHANGED <<key, verdict, license, spool, running, means>>
    BY <1>2 DEF WatchLocks, paper
  <2> QED
    BY <1>0, <2>1, <2>2, <2>4, <2>5 DEF LicenceShape, Facts
<1>3. CASE WatchRechecks
  <2>1. key \in KeyKinds \cup {"given"}
    BY <1>0 DEF Facts
  <2>2. WellFormed(asking') /\ means' \in [LicenceKinds -> Nat]
    BY <1>0, <1>3, <2>1, StartCheckShape DEF WatchRechecks
  <2> QED
    BY <1>0, <1>3, <2>2 DEF WatchRechecks, LicenceShape, Facts, paper
<1>4. CASE VerdictChanges
  <2>1. means' \in [LicenceKinds -> Nat]
    BY <1>4, SpentShape DEF VerdictChanges, LicenceKinds
  <2> QED
    BY <1>0, <1>4, <2>1 DEF VerdictChanges, LicenceShape, Facts, paper
<1> QED
  BY <1>1, <1>2, <1>3, <1>4

LEMMA CheckShapes ==
  ASSUME LicenceShape, NEW t \in Asking, Validate(t) \/ LifespanChecks(t)
  PROVE  LicenceShape'
<1>0. Facts /\ key \in KeyKinds
  BY DEF LicenceShape, Facts
<1>1. CASE Validate(t)
  <2>1. PICK about \in KeyKinds \cup {"given"} : StartCheck(t, about, 1) /\ key' \in KeyKinds
    BY <1>0, <1>1 DEF Validate
  <2>2. WellFormed(asking') /\ means' \in [LicenceKinds -> Nat]
    BY <2>1, StartCheckShape
  <2> QED
    BY <1>0, <1>1, <2>1, <2>2 DEF Validate, LicenceShape, Facts, paper
<1>2. CASE LifespanChecks(t)
  <2>1. key \in KeyKinds \cup {"given"}
    BY <1>0
  <2>2. WellFormed(asking') /\ means' \in [LicenceKinds -> Nat]
    BY <1>2, <2>1, StartCheckShape DEF LifespanChecks
  <2>3. running' \in [Sites -> {"off", "starting", "on"}]
    BY <1>0, <1>2 DEF LifespanChecks, Facts
  <2> QED
    BY <1>0, <1>2, <2>2, <2>3 DEF LifespanChecks, LicenceShape, Facts, paper
<1> QED
  BY <1>1, <1>2

LEMMA SiteShapes ==
  ASSUME LicenceShape, NEW s \in Sites, Consult(s) \/ ProcessEnds(s)
  PROVE  LicenceShape'
<1>0. Facts /\ WellFormed(asking) /\ means \in [LicenceKinds -> Nat]
  BY DEF LicenceShape
<1>1. CASE Consult(s)
  <2>1. known' \in [Sites -> Verdicts \cup {Nothing}] /\ current' \in [Sites -> BOOLEAN]
    BY <1>1, RefreshShape DEF Consult
  <2> QED
    BY <1>0, <1>1, <2>1 DEF Consult, LicenceShape, Facts, paper
<1>2. CASE ProcessEnds(s)
  <2>1. means' \in [LicenceKinds -> Nat]
    BY <1>2, SpentShape DEF ProcessEnds, LicenceKinds
  <2>2. asking' = [t \in Asking |-> IF SiteOf(t) = s THEN Free ELSE asking[t]]
    BY <1>2 DEF ProcessEnds
  <2>3. WellFormed(asking')
    BY <1>0, <2>2, FreeShape DEF WellFormed
  <2>4. /\ running' \in [Sites -> {"off", "starting", "on"}] /\ shut' \in [Sites -> BOOLEAN]
        /\ known' \in [Sites -> Verdicts \cup {Nothing}] /\ current' \in [Sites -> BOOLEAN]
    BY <1>0, <1>2 DEF ProcessEnds, Facts
  <2> QED
    BY <1>0, <1>2, <2>1, <2>3, <2>4 DEF ProcessEnds, LicenceShape, Facts, paper
<1> QED
  BY <1>1, <1>2

LEMMA LicenceNextShape == LicenceShape /\ [LicenceNext]_licenceVars => LicenceShape'
<1> SUFFICES ASSUME LicenceShape, [LicenceNext]_licenceVars PROVE LicenceShape'
  OBVIOUS
<1>1. CASE UNCHANGED licenceVars
  BY <1>1 DEF licenceVars, paper, LicenceShape, Facts
<1>2. CASE LicenceNext
  BY <1>2, WatchShapes, CheckShapes, SiteShapes, AskShapes, WriteShape, RenameShape, TakenShapes
     DEF LicenceNext, LicenceStep
<1> QED
  BY <1>1, <1>2

LEMMA LicenceInitShape == LicenceInit => LicenceShape
<1> SUFFICES ASSUME LicenceInit PROVE LicenceShape
  OBVIOUS
<1>1. WellFormed(asking)
  BY FreeShape DEF LicenceInit, WellFormed
<1>2. means \in [LicenceKinds -> Nat]
  BY LicenceAssumption DEF LicenceInit
<1>3. Facts
  BY DEF LicenceInit, Facts, KeyKinds, Verdicts, Torn, Nothing
<1> QED
  BY <1>1, <1>2, <1>3 DEF LicenceShape

LEMMA LicenceTypes == LicenceShape => LicenceTypeOK
BY DEF LicenceShape, LicenceTypeOK, Facts, WellFormed, AskShape, Papers

-----------------------------------------------------------------------------
(* Logins and requests (ConsoleAccess).                                    *)

LEMMA ConsoleMoves == [AdminNext]_adminVars => [ConsoleNext]_consoleVars
BY DEF AdminNext, adminVars, SettingsMove, LicenceMove, TeardownMove, LabMove

(* Once the node has had a user nobody is admitted without a session,      *)
(* unless two users were removed at the same time or the CLI took the last *)
(* one: whoever removes a user counted two of them since the last removal  *)
(* (remove_user, require_api_token).                                       *)
THEOREM OpenCorrect == AdminSpec => []OpenOnlyAtFirstBoot
<1>1. AdminInit => ConsoleTypes /\ OpenInv
  <2> SUFFICES ASSUME AdminInit PROVE ConsoleTypes /\ OpenInv
    OBVIOUS
  <2>1. ConsoleInit
    BY DEF AdminInit
  <2>2. emptied = IF users = {} THEN "fresh" ELSE "never"
    BY <2>1 DEF ConsoleInit
  <2>3. \A c \in Callers : call[c].pc = "idle" /\ call[c].by = "none"
    BY <2>1 DEF ConsoleInit, Rest
  <2> QED
    BY <2>1, <2>2, <2>3, ConsoleInitTypes DEF OpenInv, Deleting
<1>2. ConsoleTypes /\ OpenInv /\ [AdminNext]_adminVars => (ConsoleTypes /\ OpenInv)'
  BY ConsoleMoves, ConsoleNextTypes, OpenNextInv
<1>3. ConsoleTypes /\ OpenInv => OpenOnlyAtFirstBoot
  BY DEF ConsoleTypes, RemovalsOK, OpenInv, OpenOnlyAtFirstBoot, Callers
<1> QED
  BY <1>1, <1>2, <1>3, PTL DEF AdminSpec

(* A request is admitted in the name of somebody who may still come in: a  *)
(* session that ended longer ago than the cache lasts is refused unless an *)
(* answer about it was under way when it ended, an organization closed in  *)
(* the newest answer of billing is shut out at once unless overlapping     *)
(* syncs mixed the answers up, and a changed password or a removed user    *)
(* ends every cookie of them (introspect, organization_open, read_user).   *)
THEOREM AdmittedCorrect == AdminSpec => AdmittedMayEnter
<1> DEFINE I == ConsoleTypes /\ SessionInv /\ DirectoryInv
           A == \A c \in Clients :
                  ~On(c, "act") /\ call'[c].pc = "act" =>
                    LET r == call'[c]
                    IN  /\ r.by = "token" => /\ r.late => raced[r.token]
                                             /\ OrgOf[r.token] \subseteq heard.open \/ heard.tangled
                        /\ r.by = "cookie" => \E u \in users : u.id = r.cookie.id /\ u.pass = r.cookie.pass
<1>1. AdminInit => I
  BY ConsoleInitTypes, ConsoleInitInvs DEF AdminInit
<1>2. I /\ [AdminNext]_adminVars => I'
  BY ConsoleMoves, ConsoleNextTypes, SessionNextInv, DirectoryNextInv
<1>3. I /\ [AdminNext]_adminVars => [A]_consoleVars
  <2> SUFFICES ASSUME I, [AdminNext]_adminVars PROVE A
    OBVIOUS
  <2>1. \A d \in Clients : Enters(d)
    BY ConsoleMoves, TokenEnters, CookieEnters, NamelessEnters, OthersStayOut
  <2>2. ASSUME NEW c \in Clients, ~On(c, "act"), call'[c].pc = "act", NEW r, r = call'[c]
        PROVE  /\ r.by = "token" => /\ r.late => raced[r.token]
                                    /\ OrgOf[r.token] \subseteq heard.open \/ heard.tangled
               /\ r.by = "cookie" => \E u \in users : u.id = r.cookie.id /\ u.pass = r.cookie.pass
    BY <2>1, <2>2 DEF Enters, On, MayEnter
  <2> QED
    BY <2>2, Zenon
<1>4. AdmittedMayEnter <=> [][A]_consoleVars
  BY DEF AdmittedMayEnter
<1> HIDE DEF I, A
<1> QED
  BY <1>1, <1>2, <1>3, <1>4, PTL DEF AdminSpec

-----------------------------------------------------------------------------
(* Types.                                                                  *)
LEMMA ConsoleTypesOK == ConsoleTypes => ConsoleTypeOK
BY DEF ConsoleTypes, ConsoleTypeOK, UsersOK, UserRows, RemovalsOK, JarOK, CallOK, CallShape, SessionOK,
       BillingOK, DirectoryOK, QuotaOK

LEMMA LabMoves == [AdminNext]_adminVars => [LabRunNext]_labVars
BY DEF AdminNext, adminVars, SettingsMove, LicenceMove, TeardownMove, LabMove

(* The variables of every part have their types: the users of a node are   *)
(* told apart by their ids and by their addresses, license.json is a       *)
(* verdict or torn, and so on, whatever part of the node moves             *)
(* (AdminTypeOK of Administration).                                        *)
THEOREM AdminTypeCorrect == AdminSpec => []AdminTypeOK
<1> DEFINE Inv == /\ part \in Parts /\ SettingsInv /\ RegistryInv /\ ConsoleTypes /\ PagesInv
                  /\ LicenceShape /\ LabTypes
<1>1. AdminInit => Inv
  BY SettingsInitInv, RegistryInitInv, ConsoleInitTypes, PagesInitInv, LicenceInitShape, LabInitTypes
     DEF AdminInit
<1>2. Inv /\ [AdminNext]_adminVars => Inv'
  <2> SUFFICES ASSUME Inv, [AdminNext]_adminVars PROVE Inv'
    OBVIOUS
  <2>1. part' \in Parts
    BY DEF AdminNext, adminVars, SettingsMove, LicenceMove, TeardownMove, LabMove
  <2>2. SettingsInv'
    BY SettingsMoves, SettingsNextInv
  <2>3. RegistryInv'
    BY RegistryMoves, RegistryNextInv
  <2>4. ConsoleTypes'
    BY ConsoleMoves, ConsoleNextTypes
  <2>5. PagesInv'
    BY PagesMoves, PagesNextInv
  <2>6. LicenceShape'
    BY LicenceMoves, LicenceNextShape
  <2>7. LabTypes'
    BY LabMoves, LabNextTypes
  <2> QED
    BY <2>1, <2>2, <2>3, <2>4, <2>5, <2>6, <2>7
<1>3. Inv => AdminTypeOK
  BY ConsoleTypesOK, LicenceTypes
     DEF AdminTypeOK, SettingsInv, SettingsShape, RegistryInv, PagesInv, LabTypes
<1> HIDE DEF Inv
<1> QED
  BY <1>1, <1>2, <1>3, PTL DEF AdminSpec
=============================================================================
