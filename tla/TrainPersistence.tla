-------------------------- MODULE TrainPersistence --------------------------
(***************************************************************************)
(* persistence.py's three journal appends onto one carrier: the gate (a    *)
(* complete fold of the journal), then the POST / rescan / at-most-one     *)
(* retry loop of _post_and_verify.  The issue backend may raise although   *)
(* the comment landed, may lose the request, and may let it land long      *)
(* after the caller has given up or died.                                  *)
(*                                                                         *)
(* text is the rest of a record's canonical payload, which holds its       *)
(* "created" timestamp: a caller that builds its record anew gets a new    *)
(* text, a caller that re-submits the same record keeps it.                *)
(***************************************************************************)
EXTENDS JournalFold, FiniteSets

CONSTANTS Writers,       \* processes that append, on any machine
          MaxOps,        \* bound: operations each writer mints
          Heads,         \* heads that may be stamped
          MaxCalls,      \* bound: append calls in a behaviour
          Late           \* TRUE: a request may land after its caller stopped

Lineage == "L"
Attempts == 2            \* for _attempt in range(2)

VARIABLES carrier,   \* the comments of the carrier, oldest first
          wire,      \* POST requests in flight: [by, n, ev]
          pc,        \* pc[w]: "idle", "post", "sent" or "scan"
          ev,        \* ev[w]: the comment of w's current or last append
          tries,     \* tries[w]: POSTs sent by the current append
          result,    \* result[w]: how w's last append ended
          calls      \* append calls so far; also the clock of "created"

vars == <<carrier, wire, pc, ev, tries, result, calls>>

Ops == Writers \X (1..MaxOps)          \* operation ids are minted: never shared
Texts == 0..MaxCalls                   \* 0 where no timestamp is part of the record

Record(o, role, n) ==
    [id |-> o, role |-> role, kind |-> IF role = "prepared" THEN "sync" ELSE "",
     lineage |-> IF role = "prepared" THEN Lineage ELSE "", text |-> n,
     carrier |-> "active"]
StampOf(h) == [id |-> <<"head", h>>, role |-> "stamp", kind |-> "plan",
               lineage |-> Lineage, text |-> 0, carrier |-> "active"]

NoEvent == [StampOf("none") EXCEPT !.role = "none"]   \* before a writer's first call

Events == {Record(o, r, n) : o \in Ops, r \in {"prepared"} \cup Terminal, n \in Texts}
              \cup {StampOf(h) : h \in Heads} \cup {NoEvent}

Results == {"none", "ok", "existed", "unresolved", "corrupt", "ambiguous", "crashed"}

TypeOK == /\ carrier \in Seq(Events)
          /\ \A m \in wire : m.by \in Writers /\ m.n \in 1..Attempts /\ m.ev \in Events
          /\ pc \in [Writers -> {"idle", "post", "sent", "scan"}]
          /\ ev \in [Writers -> Events]
          /\ tries \in [Writers -> 0..Attempts]
          /\ result \in [Writers -> Results]
          /\ calls \in Nat

Init == /\ carrier = << >>
        /\ wire = {}
        /\ pc = [w \in Writers |-> "idle"]
        /\ ev = [w \in Writers |-> NoEvent]
        /\ tries = [w \in Writers |-> 0]
        /\ result = [w \in Writers |-> "none"]
        /\ calls = 0

-----------------------------------------------------------------------------
Comments(key) == {c \in Range(carrier) : Key(c) = key}

\* The call ends before any POST.
Refuse(w, e, r) == /\ ev' = [ev EXCEPT ![w] = e]
                   /\ result' = [result EXCEPT ![w] = r]
                   /\ UNCHANGED <<carrier, wire, pc, tries>>

\* The gate passed: the write loop starts.
Admit(w, e) == /\ ev' = [ev EXCEPT ![w] = e]
               /\ pc' = [pc EXCEPT ![w] = "post"]
               /\ UNCHANGED <<carrier, wire, tries, result>>

\* The timestamp of a record just built, or of the caller's previous record.
Stampable(w) == {calls + 1} \cup ({ev[w].text} \ {0})

Called(w, n) == /\ pc[w] = "idle"
                /\ calls < MaxCalls
                /\ n \in Stampable(w)
                /\ calls' = calls + 1

\* Mutant of AppendPrepared: the one-unresolved gate is dropped.
AppendPreparedUngated(w, o, n) ==
    /\ Called(w, n)
    /\ LET e == Record(o, "prepared", n) IN
         IF FoldRaises(carrier, Lineage) THEN Refuse(w, e, "corrupt")
         ELSE IF o \in OpsWith(carrier, {"prepared"})
              THEN Refuse(w, e, IF e \in Range(carrier) THEN "existed" ELSE "corrupt")
         ELSE Admit(w, e)

AppendPrepared(w, o, n) ==
    /\ Called(w, n)
    /\ LET e == Record(o, "prepared", n) IN
         IF FoldRaises(carrier, Lineage) THEN Refuse(w, e, "corrupt")
         ELSE IF o \in OpsWith(carrier, {"prepared"})
              THEN Refuse(w, e, IF e \in Range(carrier) THEN "existed" ELSE "corrupt")
         ELSE IF Unresolved(carrier) # {} THEN Refuse(w, e, "unresolved")
         ELSE Admit(w, e)

\* Mutant of AppendOutcome: a resolved operation takes another outcome.
AppendOutcomeUnchecked(w, o, role, n) ==
    /\ Called(w, n)
    /\ LET e == Record(o, role, n) IN
         IF FoldRaises(carrier, Lineage) \/ o \notin OpsWith(carrier, {"prepared"})
         THEN Refuse(w, e, "corrupt")
         ELSE Admit(w, e)

\* Mutant of AppendOutcome: the prepared record is not looked up.
AppendOutcomeOrphan(w, o, role, n) ==
    /\ Called(w, n)
    /\ IF FoldRaises(carrier, Lineage) THEN Refuse(w, Record(o, role, n), "corrupt")
       ELSE Admit(w, Record(o, role, n))

AppendOutcome(w, o, role, n) ==
    /\ Called(w, n)
    /\ LET e == Record(o, role, n) IN
         IF FoldRaises(carrier, Lineage) \/ o \notin OpsWith(carrier, {"prepared"})
         THEN Refuse(w, e, "corrupt")
         ELSE IF o \in OpsWith(carrier, Terminal)
              THEN Refuse(w, e, IF e \in Range(carrier) THEN "existed" ELSE "corrupt")
         ELSE Admit(w, e)

\* Outside the one-unresolved gate: a stamp is not a remote mutation.
AppendReadyStamp(w, h) ==
    /\ Called(w, calls + 1)
    /\ LET e == StampOf(h) IN
         IF FoldRaises(carrier, Lineage) THEN Refuse(w, e, "corrupt")
         ELSE IF Comments(Key(e)) # {} THEN Refuse(w, e, "existed")
         ELSE Admit(w, e)

-----------------------------------------------------------------------------
(* _post_and_verify *)

Post(w) == /\ pc[w] = "post"
           /\ tries' = [tries EXCEPT ![w] = @ + 1]
           /\ wire' = wire \cup {[by |-> w, n |-> tries[w] + 1, ev |-> ev[w]]}
           /\ pc' = [pc EXCEPT ![w] = "sent"]
           /\ UNCHANGED <<carrier, ev, result, calls>>

\* The backend answers, or raises: both lead to the read-back.
PostReturns(w) == /\ pc[w] = "sent"
                  /\ Late \/ \A m \in wire : m.by # w
                  /\ pc' = [pc EXCEPT ![w] = "scan"]
                  /\ UNCHANGED <<carrier, wire, ev, tries, result, calls>>

Finish(w, r) == /\ pc' = [pc EXCEPT ![w] = "idle"]
                /\ result' = [result EXCEPT ![w] = r]
                /\ tries' = [tries EXCEPT ![w] = 0]
                /\ UNCHANGED <<carrier, wire, ev, calls>>

\* Mutant of Rescan: the retry loop is not bounded.
RescanForever(w) ==
    /\ pc[w] = "scan"
    /\ LET found == Comments(Key(ev[w])) IN
         IF \E c \in found : CanonicalPayload(c) # CanonicalPayload(ev[w])
         THEN Finish(w, "corrupt")
         ELSE IF found # {} THEN Finish(w, "ok")
         ELSE /\ pc' = [pc EXCEPT ![w] = "post"]
              /\ UNCHANGED <<carrier, wire, ev, tries, result, calls>>

\* Mutant of Rescan: a POST that did not raise counts as landed.
RescanTrusting(w) ==
    /\ pc[w] = "scan"
    /\ Finish(w, "ok")

\* _event_landed / _stamp_landed, and the loop around it.
Rescan(w) ==
    /\ pc[w] = "scan"
    /\ LET found == Comments(Key(ev[w])) IN
         IF \E c \in found : CanonicalPayload(c) # CanonicalPayload(ev[w])
         THEN Finish(w, "corrupt")
         ELSE IF found # {} THEN Finish(w, "ok")
         ELSE IF tries[w] = Attempts THEN Finish(w, "ambiguous")
         ELSE /\ pc' = [pc EXCEPT ![w] = "post"]
              /\ UNCHANGED <<carrier, wire, ev, tries, result, calls>>

RescanFails(w) == pc[w] = "scan" /\ Finish(w, "ambiguous")

Crash(w) == /\ pc[w] # "idle"
            /\ Late \/ \A m \in wire : m.by # w
            /\ Finish(w, "crashed")

(* The issue backend. *)

Deliver(m) == /\ m \in wire
              /\ wire' = wire \ {m}
              /\ carrier' = Append(carrier, m.ev)
              /\ UNCHANGED <<pc, ev, tries, result, calls>>

Lose(m) == /\ m \in wire
           /\ wire' = wire \ {m}
           /\ UNCHANGED <<carrier, pc, ev, tries, result, calls>>

Next == \/ \E w \in Writers :
             \/ \E n \in Stampable(w) :
                  \/ \E k \in 1..MaxOps : AppendPrepared(w, <<w, k>>, n)
                  \/ \E o \in Ops, role \in Terminal : AppendOutcome(w, o, role, n)
             \/ \E h \in Heads : AppendReadyStamp(w, h)
             \/ Post(w) \/ PostReturns(w) \/ Rescan(w) \/ RescanFails(w) \/ Crash(w)
        \/ \E m \in wire : Deliver(m) \/ Lose(m)

Spec == Init /\ [][Next]_vars

\* A process that is running keeps running, and a request is answered or times
\* out; nothing makes a lost comment land.
Going(w) == Post(w) \/ PostReturns(w) \/ Rescan(w) \/ RescanFails(w)
Answer   == \E m \in wire : Deliver(m) \/ Lose(m)

-----------------------------------------------------------------------------
(***************************************************************************)
(* Whatever is lost, late, repeated or raced, no reader ever meets an      *)
(* outcome without its prepared record: the gates of append_outcome fold   *)
(* first and comments are never reordered across that read.  The only      *)
(* corruption the protocol can cause by itself is a conflicting duplicate  *)
(* or a second outcome, each of which needs two appends in flight.         *)
(***************************************************************************)
OnlyRacesCorrupt ==
    FoldRaises(carrier, Lineage) => /\ ~ OrphanOutcome(carrier)
                                    /\ ConflictingDuplicate(carrier)
                                         \/ MoreThanOneOutcome(carrier)

(***************************************************************************)
(* What a caller of the append protocol sees, in the terms of AppendLog:   *)
(* what may still land, and what each caller was told.                     *)
(***************************************************************************)
Outstanding == {m.ev : m \in wire} \cup {ev[w] : w \in {v \in Writers : pc[v] # "idle"}}
Told == [w \in Writers |-> IF pc[w] # "idle" THEN "working"
                          ELSE CASE result[w] = "none" -> "none"
                                 [] result[w] \in {"ok", "existed"} -> "ok"
                                 [] OTHER -> "unknown"]

(***************************************************************************)
(* With a single writer, requests that do not outlive their caller, and    *)
(* gates that fold before every write, the journal never becomes corrupt   *)
(* and never holds two unresolved operations.                              *)
(***************************************************************************)
SoleWriterCoherent == /\ ~ FoldRaises(carrier, Lineage)
                      /\ Cardinality(Unresolved(carrier)) <= 1

(***************************************************************************)
(* persistence.py: "One unresolved remote-mutating operation per lineage   *)
(* - append_prepared refuses while any operation lacks a terminal outcome" *)
(***************************************************************************)
OneUnresolvedPerLineage == Cardinality(Unresolved(carrier)) <= 1
=============================================================================
