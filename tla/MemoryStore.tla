----------------------------- MODULE MemoryStore -----------------------------
(***************************************************************************)
(* The store of Phase 5 memory (memory/store.py): evidence from a frozen   *)
(* catalog, proposed records, links between the two and an append-only     *)
(* lifecycle of each record, in an SQLite file that any process may open;  *)
(* and the frozen snapshot of what has been promoted.                      *)
(*                                                                         *)
(* Evidence and records are content addressed: a fact and a proposal are   *)
(* their own identities.  A method that decides on what it has read and    *)
(* then writes in a transaction is two steps; a dying process loses the    *)
(* second one.                                                             *)
(***************************************************************************)
EXTENDS Integers, Sequences, FiniteSets

CONSTANTS
  Users,       \* processes that open the file
  Facts,       \* [task, family, role], with the role "training" or "development"
  Catalogs,    \* the evidence catalogs a process may come with, sets of facts
  Proposals,   \* [kind, scope, support]
  Reasons,
  MaxOpens     \* bound: how often the file is opened

VARIABLES
  file,        \* "none", "bare" (tables without metadata) or "bound"
  catalog,     \* the catalog whose hash is in the metadata
  evidence, links, history,   \* tables; the lifecycle events of each record in order
  snapshot,    \* the snapshot artifact, <<>> or <<content>>
  session,     \* of each process: its catalog and what it is about to write
  opens

tables == <<evidence, links, history>>
vars == <<file, catalog, evidence, links, history, snapshot, session, opens>>

FactsAssumption == \A f \in Facts : f.role \in {"training", "development"}

-----------------------------------------------------------------------------
(* Records. *)

TerminalStates == {"rejected", "invalidated"}
TargetOf == [scoping |-> "scoped", promotion |-> "promoted", rejection |-> "rejected",
             invalidation |-> "invalidated"]
EventOf == [scoped |-> "scoping", promoted |-> "promotion", rejected |-> "rejection",
            invalidated |-> "invalidation"]

(* An event and its payload. *)
Event(type, reason, cause, gate) ==
  [type |-> type, reason |-> reason, cause |-> cause, gate |-> gate]
Recorded == {p \in Proposals : history[p] # <<>>}

(* _state: the history is replayed; "corrupt" is an error.                    *)
StateAfter(events) ==
  LET state[n \in 0..Len(events)] ==
        IF n <= 1 THEN (IF n = 1 /\ events[1].type = "proposal" THEN "proposed" ELSE "corrupt")
        ELSE LET before == state[n - 1]
                 event == events[n].type
             IN  CASE \/ event = "proposal"
                      \/ before \in TerminalStates \cup {"corrupt"}
                      \/ before = "promoted" /\ event # "invalidation" -> "corrupt"
                   [] OTHER -> TargetOf[event]
  IN  state[Len(events)]
State(p) == StateAfter(history[p])

LinkedBy(p, polarity) == {e \in evidence : <<p, e, polarity>> \in links}
Countered(p) == LinkedBy(p, "counter") # {}

(* independent_support, at least two tasks and two families.                  *)
Independent(p, polarity) ==
  /\ Cardinality({e.task : e \in LinkedBy(p, polarity)}) >= 2
  /\ Cardinality({e.family : e \in LinkedBy(p, polarity)}) >= 2

(* What transition() asks of a promotion; gate says whether the caller gives  *)
(* a payload with strictly_positive_net_gain (any other one counts as none).  *)
Promotable(p, gate) ==
  /\ Independent(p, "support") /\ ~Countered(p)
  /\ p.scope = "global-f0"
  /\ p.kind = "primitive-proposal" => Independent(p, "validation") /\ gate

-----------------------------------------------------------------------------
(* Processes. *)

Closed == [pc |-> "closed"]
Opened(c) == [pc |-> "open", catalog |-> c]
At(u, pc) == session[u].pc = pc
Return(u) == session' = [session EXCEPT ![u] = Opened(@.catalog)]

Init ==
  /\ file = "none" /\ catalog = {}
  /\ evidence = {} /\ links = {} /\ history = [p \in Proposals |-> <<>>]
  /\ snapshot = <<>>
  /\ session = [u \in Users |-> Closed]
  /\ opens = 0

(* __init__: without tables the schema is created, statement by statement.    *)
Create(u, c) ==
  /\ At(u, "closed") /\ file = "none" /\ opens < MaxOpens
  /\ file' = "bare"
  /\ session' = [session EXCEPT ![u] = [pc |-> "binding", catalog |-> c]]
  /\ opens' = opens + 1
  /\ UNCHANGED <<catalog, tables, snapshot>>

(* _initialize, the metadata. *)
Bind(u) ==
  /\ At(u, "binding")
  /\ file' = "bound" /\ catalog' = session[u].catalog
  /\ Return(u)
  /\ UNCHANGED <<tables, snapshot, opens>>

(* _verify_metadata compares the schema version and the split registry only.  *)
Open(u, c) ==
  /\ At(u, "closed") /\ file = "bound" /\ opens < MaxOpens
  /\ session' = [session EXCEPT ![u] = Opened(c)]
  /\ opens' = opens + 1
  /\ UNCHANGED <<file, catalog, tables, snapshot>>

(* admit_evidence *)
AdmitEvidence(u, f) ==
  /\ At(u, "open") /\ f \in session[u].catalog
  /\ f \notin evidence
  /\ evidence' = evidence \cup {f}
  /\ UNCHANGED <<file, catalog, links, history, snapshot, session, opens>>

(* propose_record; one that is there is returned. *)
ProposeRecord(u, p) ==
  /\ At(u, "open") /\ p.support # {} /\ p.support \subseteq evidence
  /\ \A e \in p.support : e.role = "training"
  /\ history[p] = <<>>
  /\ links' = links \cup {<<p, e, "support">> : e \in p.support}
  /\ history' = [history EXCEPT ![p] = <<Event("proposal", "none", {}, FALSE)>>]
  /\ UNCHANGED <<file, catalog, evidence, snapshot, session, opens>>

(* link_evidence up to its transaction; the state is the one read here.       *)
CheckLink(u, p, e, polarity) ==
  /\ At(u, "open") /\ e \in evidence
  /\ polarity = "validation" => e.role = "development"
  /\ polarity = "support" => e.role = "training"
  /\ p \in Recorded /\ State(p) \notin TerminalStates \cup {"corrupt"}
  /\ <<p, e, polarity>> \notin links
  /\ session' = [session EXCEPT ![u] =
       [pc |-> "link", catalog |-> @.catalog, record |-> p, evidence |-> e,
        polarity |-> polarity, state |-> State(p)]]
  /\ UNCHANGED <<file, catalog, tables, snapshot, opens>>

(* Mutant: counterevidence leaves a promoted record as it is. *)
CommitLinkOnly(u) ==
  /\ At(u, "link")
  /\ links' = links \cup {<<session[u].record, session[u].evidence, session[u].polarity>>}
  /\ Return(u)
  /\ UNCHANGED <<file, catalog, evidence, history, snapshot, opens>>

(* The link, and the invalidation with it; a link that has meanwhile been     *)
(* made is an integrity error.                                                *)
CommitLink(u) ==
  /\ At(u, "link")
  /\ LET s == session[u]
         link == <<s.record, s.evidence, s.polarity>>
         event == Event("invalidation", "counterevidence-after-promotion", {s.evidence}, FALSE)
     IN  IF link \in links THEN UNCHANGED <<links, history>>
         ELSE /\ links' = links \cup {link}
              /\ history' = IF s.polarity = "counter" /\ s.state = "promoted"
                              THEN [history EXCEPT ![s.record] = Append(@, event)]
                              ELSE history
  /\ Return(u)
  /\ UNCHANGED <<file, catalog, evidence, snapshot, opens>>

(* transition() up to its transaction; a promoted record does not get here.   *)
(* Only for a primitive a caller has a gate to give.                          *)
CheckTransition(u, p, target, reason, gate) ==
  /\ At(u, "open") /\ p \in Recorded
  /\ gate => p.kind = "primitive-proposal"
  /\ State(p) \notin TerminalStates \cup {target, "promoted", "corrupt"}
  /\ target = "promoted" => Promotable(p, gate)
  /\ session' = [session EXCEPT ![u] =
       [pc |-> "transition", catalog |-> @.catalog, record |-> p,
        event |-> Event(EventOf[target], reason, {}, gate)]]
  /\ UNCHANGED <<file, catalog, tables, snapshot, opens>>

(* The hash of an event is unique: the same one cannot be written twice.      *)
CommitTransition(u) ==
  /\ At(u, "transition")
  /\ LET p == session[u].record
         event == session[u].event
     IN  history' = IF \E k \in DOMAIN history[p] : history[p][k] = event
                      THEN history ELSE [history EXCEPT ![p] = Append(@, event)]
  /\ Return(u)
  /\ UNCHANGED <<file, catalog, evidence, links, snapshot, opens>>

(* audit, then deterministic_export; it raises if a history is corrupt.       *)
Export(u) ==
  /\ At(u, "open") /\ snapshot = <<>>
  /\ \A p \in Recorded : State(p) # "corrupt" /\ LinkedBy(p, "support") # {}
  /\ session' = [session EXCEPT ![u] =
       [pc |-> "freeze", catalog |-> @.catalog, export |-> history]]
  /\ UNCHANGED <<file, catalog, tables, snapshot, opens>>

(* freeze_snapshot after the export. *)
FreezeSnapshot(u) ==
  /\ At(u, "freeze")
  /\ snapshot' = <<[export |-> session[u].export,
                    items |-> {p \in Recorded : State(p) = "promoted"}]>>
  /\ Return(u)
  /\ UNCHANGED <<file, catalog, tables, opens>>

(* __exit__, or the process dies, with what it was about to write.            *)
Leave(u) ==
  /\ ~At(u, "closed")
  /\ session' = [session EXCEPT ![u] = Closed]
  /\ UNCHANGED <<file, catalog, tables, snapshot, opens>>

Next ==
  \E u \in Users :
    \/ \E c \in Catalogs : Create(u, c) \/ Open(u, c)
    \/ Bind(u) \/ Leave(u)
    \/ \E f \in Facts : AdmitEvidence(u, f)
    \/ \E p \in Proposals : ProposeRecord(u, p)
    \/ \E p \in Proposals, e \in Facts, polarity \in {"support", "validation", "counter"} :
         CheckLink(u, p, e, polarity)
    \/ \E p \in Proposals, target \in DOMAIN EventOf, reason \in Reasons, gate \in BOOLEAN :
         CheckTransition(u, p, target, reason, gate)
    \/ CommitLink(u) \/ CommitTransition(u)
    \/ Export(u) \/ FreezeSnapshot(u)

Spec == Init /\ [][Next]_vars

-----------------------------------------------------------------------------
(* Types; links are between what is there, and of the right roles.            *)
MemoryTypeOK ==
  /\ file \in {"none", "bare", "bound"} /\ opens \in 0..MaxOpens
  /\ evidence \subseteq Facts
  /\ \A link \in links :
       /\ link[1] \in Recorded /\ link[2] \in evidence
       /\ link[3] = "support" => link[2].role = "training"
       /\ link[3] = "validation" => link[2].role = "development"
  /\ \A p \in Recorded : LinkedBy(p, "support") # {}

(* What is promoted, or was until counterevidence came, rests on two          *)
(* independent training tasks and families and, for a primitive, on two       *)
(* independent development tasks and families as well; retries and second     *)
(* observations of one task do not help (DD-034).                             *)
PromotionIsIndependent ==
  \A p \in Recorded :
    (\E k \in DOMAIN history[p] : history[p][k].type = "promotion") =>
      /\ p.scope = "global-f0"
      /\ \A polarity \in {"support"} \cup (IF p.kind = "primitive-proposal" THEN {"validation"} ELSE {}) :
           \E e, f \in LinkedBy(p, polarity) : e.task # f.task
      /\ \A polarity \in {"support"} \cup (IF p.kind = "primitive-proposal" THEN {"validation"} ELSE {}) :
           \E e, f \in LinkedBy(p, polarity) : e.family # f.family

(* "Counterevidence blocks global promotion and invalidates a promoted        *)
(* record."                                                                   *)
CounterevidenceWins == \A p \in Recorded : Countered(p) => State(p) # "promoted"

(* The log of a record can always be replayed.  A record whose log cannot     *)
(* stops every audit, export and snapshot of the whole store.                 *)
HistoriesReplay == \A p \in Recorded : State(p) # "corrupt"

(* A snapshot holds what is promoted according to the export it names.        *)
SnapshotMatchesExport ==
  snapshot # <<>> =>
    snapshot[1].items = {p \in Proposals : /\ snapshot[1].export[p] # <<>>
                                        /\ StateAfter(snapshot[1].export[p]) = "promoted"}

(* A lifecycle is append-only and a rejected or invalidated record stays so.  *)
LifecycleGrows ==
  \A p \in Proposals :
    /\ SubSeq(history'[p], 1, Len(history[p])) = history[p]
    /\ p \in Recorded /\ State(p) \in TerminalStates => State(p)' = State(p)
=============================================================================
