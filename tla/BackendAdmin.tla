--------------------------- MODULE BackendAdmin ---------------------------
(***************************************************************************)
(* Administration of the LLM backends (internal/service/llm_backend.go)    *)
(* composed with the load balancer it feeds: every operation writes one    *)
(* row and then rebuilds the node list from the enabled rows, in steps     *)
(* that interleave with the steps of other administrators and of calls.    *)
(***************************************************************************)
EXTENDS LoadBalancer

CONSTANTS Admin,      \* requests of administrators in flight
          ListMayFail \* whether the ListEnabled query may fail

ASSUME AdminAssumption == ListMayFail \in BOOLEAN

VARIABLES
  row,    \* llm_backends: "new" before it is created, "gone" once deleted
  at,     \* where each administrator's request stands
  edit,   \* what it writes: the row's new value, taken from the row it read
  target, \* the backend it is about
  snap,   \* what ListEnabled returned to it
  stale,  \* the last refresh failed and left the list as it was
  names,  \* history: requests that name a status
  wanted, \* history: the status asked for last, or that an older copy of the row brought back
  news,   \* history: what others have written since a request read it: its row, or the list
  unread  \* history: rows written between the reading of the installed list and its install

readVars    == <<edit, target, snap>>
newsVars    == <<names, wanted, news, unread>>
admVars     == <<row, at, readVars, stale, newsVars>>
vars        == <<lbVars, admVars>>

Row == {"new", "on", "off", "gone"}

Enabled == {b \in Backend : row[b] = "on"}
Listed  == {n.id : n \in nodes}

AdmTypeOK ==
  /\ LBTypeOK
  /\ row \in [Backend -> Row]
  /\ at \in [Admin -> {"idle", "found", "written", "listed"}]
  /\ edit \in [Admin -> Row]
  /\ target \in [Admin -> Backend \cup {None}]
  /\ \A a \in Admin : at[a] = "found" => target[a] \in Backend
  /\ snap \in [Admin -> SUBSET Backend]
  /\ stale \in BOOLEAN
  /\ names \subseteq Admin
  /\ wanted \in [Backend -> Row]
  /\ news \in [Admin -> SUBSET Backend]
  /\ unread \subseteq Backend

\* Startup: the list is built from the enabled rows before the server listens.
AdmInit ==
  /\ LBInit
  /\ row \in [Backend -> {"new", "on"}]
  /\ Listed = Enabled
  /\ at = [a \in Admin |-> "idle"]
  /\ edit = [a \in Admin |-> "new"]
  /\ target = [a \in Admin |-> None]
  /\ snap = [a \in Admin |-> {}]
  /\ stale = FALSE
  /\ names = {} /\ wanted = row
  /\ news = [a \in Admin |-> {}]
  /\ unread = {}

-----------------------------------------------------------------------------
MoveTo(a, where) == at' = [at EXCEPT ![a] = where]

\* A request starts while a list is left for it to install.
Begin(a, b, value, named) ==
  /\ at[a] = "idle"
  /\ gen + Cardinality({other \in Admin : at[other] # "idle"}) < MaxGen
  /\ MoveTo(a, "found")
  /\ target' = [target EXCEPT ![a] = b]
  /\ edit' = [edit EXCEPT ![a] = value]
  /\ names' = IF named THEN names \cup {a} ELSE names
  /\ UNCHANGED <<row, snap, stale, wanted, news, unread, lbVars>>

\* Create: enabled, under an id of its own.
BeginCreate(a, b) ==
  /\ row[b] = "new"
  /\ \A other \in Admin : target[other] # b
  /\ Begin(a, b, "on", TRUE)

\* Update: FindByID, then the requested fields on a copy of the row; the status is
\* changed only if the request names it.
BeginUpdate(a, b) ==
  /\ row[b] \in {"on", "off"}
  /\ \/ Begin(a, b, row[b], FALSE)
     \/ \E status \in {"on", "off"} : Begin(a, b, status, TRUE)

\* Delete: FindByID.
BeginDelete(a, b) == row[b] \in {"on", "off"} /\ Begin(a, b, "gone", TRUE)

\* The request's copy of the row is not used again after the write.
Forget(a) ==
  /\ edit' = [edit EXCEPT ![a] = "new"]
  /\ target' = [target EXCEPT ![a] = None]
  /\ names' = names \ {a}

\* What a write of b means to another request: to an Update that names no status, that its
\* copy of b is old; to a refresh, that its list is.
Outdated(c, b) ==
  \/ at[c] = "found" /\ c \notin names /\ target[c] = b
  \/ at[c] = "listed"

\* What a write means to the history.
Remember(a) ==
  LET b == target[a] IN
  /\ wanted' = IF a \in names \/ b \in news[a] THEN [wanted EXCEPT ![b] = edit[a]] ELSE wanted
  /\ news' = [c \in Admin |-> IF c = a THEN {}
                              ELSE IF Outdated(c, b) THEN news[c] \cup {b} ELSE news[c]]

\* Seeded fault: the refresh of a delete is skipped.
WriteNoRefresh(a) ==
  /\ at[a] = "found"
  /\ row' = [row EXCEPT ![target[a]] = edit[a]]
  /\ MoveTo(a, IF edit[a] = "gone" THEN "idle" ELSE "written")
  /\ Forget(a) /\ Remember(a)
  /\ UNCHANGED <<snap, stale, unread, lbVars>>

\* The database write.  Save stores the whole copy, and inserts it again when the row was
\* deleted meanwhile; Create finds its id unused; deleting a missing row is no error.
Write(a) ==
  /\ at[a] = "found"
  /\ row' = [row EXCEPT ![target[a]] = edit[a]]
  /\ MoveTo(a, "written")
  /\ Forget(a) /\ Remember(a)
  /\ UNCHANGED <<snap, stale, unread, lbVars>>

\* The write fails: the request ends with an error and without a refresh.
WriteFails(a) ==
  /\ at[a] = "found"
  /\ MoveTo(a, "idle")
  /\ Forget(a)
  /\ news' = [news EXCEPT ![a] = {}]
  /\ UNCHANGED <<row, snap, stale, wanted, unread, lbVars>>

\* refreshLoadBalancer: read the enabled rows ...
ListEnabled(a) ==
  /\ at[a] = "written"
  /\ snap' = [snap EXCEPT ![a] = Enabled]
  /\ MoveTo(a, "listed")
  /\ UNCHANGED <<row, edit, target, stale, newsVars, lbVars>>

\* ... when that fails the list stays, and the operation still reports success;
ListEnabledFails(a) ==
  /\ at[a] = "written"
  /\ ListMayFail
  /\ stale' = TRUE
  /\ MoveTo(a, "idle")
  /\ UNCHANGED <<row, readVars, newsVars, lbVars>>

\* ... and install the new list.
Install(a) ==
  /\ at[a] = "listed"
  /\ UpdateNodes(snap[a])
  /\ snap' = [snap EXCEPT ![a] = {}]
  /\ stale' = FALSE
  /\ MoveTo(a, "idle")
  /\ unread' = news[a]
  /\ news' = [news EXCEPT ![a] = {}]
  /\ UNCHANGED <<row, edit, target, names, wanted>>

Administer(a) ==
  \/ \E b \in Backend : BeginCreate(a, b) \/ BeginUpdate(a, b) \/ BeginDelete(a, b)
  \/ Write(a) \/ WriteFails(a) \/ ListEnabled(a) \/ ListEnabledFails(a) \/ Install(a)

AdmNext ==
  \/ \E a \in Admin : Administer(a)
  \/ \E r \in Request : Call(r) /\ UNCHANGED admVars
  \/ \E u \in User : AffinityExpires(u) /\ UNCHANGED admVars

AdmSpec == AdmInit /\ [][AdmNext]_vars

\* A picked node is counted in, upstream calls end by their timeouts, and handlers close
\* the streams they opened.
CallEnds(r) == CountIn(r) \/ UnaryReturns(r) \/ StreamFails(r) \/ Close(r) \/ StreamDone(r)

AdmFairSpec == AdmSpec /\ \A r \in Request : WF_vars(CallEnds(r) /\ UNCHANGED admVars)

-----------------------------------------------------------------------------
(***************************************************************************)
(* Properties                                                              *)
(***************************************************************************)
Quiet == \A a \in Admin : at[a] = "idle"

\* When no administration request is running and the last refresh succeeded, the balancer
\* routes to a backend exactly if its row is enabled, also when the requests of several
\* administrators overlap: wrong are at most the rows written while another request held the
\* list that it installed last (refreshLoadBalancer after every write).  And every row has
\* the status asked for last, unless an Update that names none saved a copy older than
\* another request's write.
BalancerFollowsRows ==
  Quiet /\ ~stale =>
    \A b \in Backend : /\ b \in unread \/ (b \in Listed <=> row[b] = "on")
                       /\ row[b] = wanted[b]

\* A node at its limit does not stay there: every connection is given back in the end,
\* also when the node list was replaced under the call.
NodesRecover == \A n \in Node : []<>(active[n] < MaxConn[n.id])
=============================================================================
