---------------------------- MODULE HistoryPages ----------------------------
(***************************************************************************)
(* Reading a list page by page (paging.py): the history of events and of   *)
(* sends and the delivery queue (services/history.py), the users           *)
(* (list_users of users.py), the cameras (search_cameras of storage.py).   *)
(* A page is one SELECT: the first rows after the cursor, in the order of  *)
(* a key and the id, and one more to know whether there is another page;   *)
(* the cursor names the last row that was returned.  Rows come, change and *)
(* go between two pages.                                                   *)
(*                                                                         *)
(* The key of a history row is its creation, which may precede that of     *)
(* rows already listed (HistoryWriter commits later); the key of a job is  *)
(* its last change; that of a user the email, that of a camera the name.   *)
(***************************************************************************)
EXTENDS Integers, FiniteSets

CONSTANTS
  RowIds,     (* ids, in their order                                       *)
  Keys,       (* times, emails or names, in their order                    *)
  Limits,     (* sizes of a page                                           *)
  Edits       (* BOUND: changes of the table during the walk               *)

ASSUME PagesAssumption ==
  /\ RowIds \subseteq Nat \ {0} /\ IsFiniteSet(RowIds)
  /\ Keys \subseteq Nat \ {0} /\ IsFiniteSet(Keys) /\ Keys # {}
  /\ Limits \subseteq Nat \ {0} /\ Limits # {} /\ Edits \in Nat

VARIABLES
  list,    (* which list is read                                           *)
  rows,    (* the table: the key of each row, 0 when there is none         *)
  limit,   (* rows of a page                                               *)
  cursor,  (* key and id of the last row returned; "start", "end"          *)
  shown,   (* history: how often the walk returned each row                *)
  steady,  (* history: rows that were there at the start, and untouched    *)
  edits    (* what is left of Edits                                        *)

pagesVars == <<list, rows, limit, cursor, shown, steady, edits>>

Newest == {"triggers", "sends", "outbound"}  (* ordered DESC               *)
ListNames  == Newest \cup {"users", "cameras"}

Start == <<"start">>
End   == <<"end">>
There == {i \in RowIds : rows[i] # 0}

PagesInit ==
  /\ list \in ListNames /\ limit \in Limits
  /\ rows \in [RowIds -> Keys \cup {0}]
  /\ cursor = Start
  /\ shown = [i \in RowIds |-> 0]
  /\ steady = There
  /\ edits = Edits

-----------------------------------------------------------------------------
(* Row values (k, i) and (l, j): tuple_(key, id) in the order of the list. *)
ByKeyAlone(k, i, l, j) == IF list \in Newest THEN k < l ELSE k > l  (* mutant *)
After(k, i, l, j) ==
  IF list \in Newest THEN k < l \/ (k = l /\ i < j) ELSE k > l \/ (k = l /\ i > j)

Remaining(c) == {i \in There : c = Start \/ After(rows[i], i, c[1], c[2])}

(* LIMIT n of the rest.                                                    *)
FirstOf(s, n) == {i \in s : Cardinality({j \in s : After(rows[i], i, rows[j], j)}) < n}

NextPage ==
  /\ cursor # End
  /\ LET found == FirstOf(Remaining(cursor), limit + 1)
         page  == FirstOf(found, limit)
     IN  /\ shown' = [i \in RowIds |-> shown[i] + IF i \in page THEN 1 ELSE 0]
         /\ IF found = page
            THEN cursor' = End
            ELSE \E last \in page :
                   /\ \A i \in page \ {last} : After(rows[last], last, rows[i], i)
                   /\ cursor' = <<rows[last], last>>
  /\ UNCHANGED <<list, rows, limit, steady, edits>>

-----------------------------------------------------------------------------
(* BOUND: the table changes only while it is read.                         *)
Edit(i, k) ==
  /\ cursor \notin {Start, End} /\ edits > 0 /\ rows[i] # k
  /\ rows' = [rows EXCEPT ![i] = k]
  /\ steady' = steady \ {i}
  /\ edits' = edits - 1
  /\ UNCHANGED <<list, limit, cursor, shown>>

Latest(k) == \A i \in RowIds : rows[i] <= k

(* A row of the history is written once; a job is new or has just changed; *)
(* users and cameras are added, renamed and removed.                       *)
Insert(i) == rows[i] = 0 /\ \E k \in Keys : (list = "outbound" => Latest(k)) /\ Edit(i, k)
Alter(i) ==
  /\ rows[i] # 0 /\ list \notin {"triggers", "sends"}
  /\ \E k \in Keys : (list = "outbound" => Latest(k)) /\ Edit(i, k)
Remove(i) == rows[i] # 0 /\ list \in {"users", "cameras"} /\ Edit(i, 0)

PagesNext ==
  \/ NextPage
  \/ \E i \in RowIds : Insert(i) \/ Alter(i) \/ Remove(i)

PagesSpec == PagesInit /\ [][PagesNext]_pagesVars

-----------------------------------------------------------------------------
(* Types.                                                                  *)
PagesTypeOK ==
  /\ list \in ListNames /\ limit \in Limits
  /\ rows \in [RowIds -> Keys \cup {0}]
  /\ cursor \in {Start, End} \cup (Keys \X RowIds)
  /\ shown \in [RowIds -> Nat] /\ steady \subseteq RowIds
  /\ edits \in 0..Edits

(* Whoever follows next_cursor to the end has been given every row that    *)
(* was there from the start and did not change, exactly once, whatever     *)
(* rows with the same key there are and whatever changed beside it.  In a  *)
(* list whose keys cannot move back to where the walk has not been (the    *)
(* history and the queue) no row at all is given twice.                    *)
EachRowOnce ==
  /\ \A i \in steady : shown[i] <= 1 /\ (cursor = End => shown[i] = 1)
  /\ list \in Newest => \A i \in RowIds : shown[i] <= 1
=============================================================================
