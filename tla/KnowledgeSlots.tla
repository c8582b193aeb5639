--------------------------- MODULE KnowledgeSlots ---------------------------
(***************************************************************************)
(* Searches of concurrent turns at the knowledge providers                 *)
(* (packages/agent/providers.py, with the retry of knowledge.retrieve).    *)
(*                                                                         *)
(* A database read runs in a thread of its own that holds one of the read  *)
(* slots.  The caller waits for the slot and for the answer until its      *)
(* deadline; a stalled thread keeps its slot for as long as it stalls, and *)
(* nobody reads what it finds.  The law service is an HTTP call without a  *)
(* slot.                                                                   *)
(***************************************************************************)
EXTENDS Naturals, FiniteSets

CONSTANTS Searches,     \* the searches of all turns
          LawSearches,  \* those routed to the law service
          Slots         \* _DATABASE_READ_SLOTS

ASSUME SlotsAssumption ==
  /\ Slots \in Nat \ {0}
  /\ LawSearches \subseteq Searches

VARIABLES search,   \* for each search the state of its caller
          reader,   \* for each call of a search the thread that reads for it
          free      \* slots not taken

vars == <<search, reader, free>>

MaxCalls == 2
Calls == Searches \X (1 .. MaxCalls)
Answers == {"found", "no_match"}
Retryable == {"TIMEOUT", "UNAVAILABLE", "HTTP_ERROR"}
Errors == Retryable \cup {"ACCESS_DENIED", "INVALID_RESPONSE"}
None == "none"

TypeOK ==
  /\ search \in [Searches -> [at : {"new", "acquire", "wait", "post", "ended"}, calls : 0 .. MaxCalls,
                              late : BOOLEAN, outcome : Answers \cup Errors \cup {None}]]
  /\ reader \in [Calls -> [at : {"none", "reading", "releasing", "ended"},
                           result : Answers \cup Errors \cup {None}]]
  /\ free \in 0 .. Slots

Init ==
  /\ search = [s \in Searches |-> [at |-> "new", calls |-> 0, late |-> FALSE, outcome |-> None]]
  /\ reader = [c \in Calls |-> [at |-> "none", result |-> None]]
  /\ free = Slots

----------------------------------------------------------------------------
(***************************************************************************)
(* The caller: retrieve and search_evidence.                               *)
(***************************************************************************)
Call(s) == <<s, search[s].calls>>
Entry(s) == IF s \in LawSearches THEN "post" ELSE "acquire"

Begin(s) ==
  /\ search[s].at = "new"
  /\ search' = [search EXCEPT ![s].at = Entry(s), ![s].calls = 1]
  /\ UNCHANGED <<reader, free>>

\* The deadline of a search covers both its calls.
Deadline(s) ==
  /\ search[s].at \in {"acquire", "wait", "post"} /\ ~search[s].late
  /\ search' = [search EXCEPT ![s].late = TRUE]
  /\ UNCHANGED <<reader, free>>

\* A failed call that may succeed is repeated once, while there is time.
Concluded(s, result) ==
  search' = IF result \in Retryable /\ search[s].calls < MaxCalls /\ ~search[s].late
            THEN [search EXCEPT ![s].at = Entry(s), ![s].calls = @ + 1]
            ELSE [search EXCEPT ![s].at = "ended", ![s].outcome = result]

Acquire(s) ==
  /\ search[s].at = "acquire" /\ free > 0
  /\ free' = free - 1
  /\ reader' = [reader EXCEPT ![Call(s)].at = "reading"]
  /\ search' = [search EXCEPT ![s].at = "wait"]

GivesUpNever(s) == FALSE
GivesUp(s) == search[s].at = "acquire" /\ free = 0 /\ search[s].late
NoSlot(s) ==
  /\ GivesUp(s)
  /\ Concluded(s, "TIMEOUT")
  /\ UNCHANGED <<reader, free>>

Take(s) ==
  /\ search[s].at = "wait" /\ reader[Call(s)].result # None
  /\ Concluded(s, reader[Call(s)].result)
  /\ UNCHANGED <<reader, free>>

NoAnswer(s) ==
  /\ search[s].at = "wait" /\ reader[Call(s)].result = None /\ search[s].late
  /\ Concluded(s, "TIMEOUT")
  /\ UNCHANGED <<reader, free>>

\* The law service: the client gives up at the deadline.
Post(s) ==
  /\ search[s].at = "post"
  /\ \E result \in Answers \cup Errors :
       /\ search[s].late => result = "TIMEOUT"
       /\ Concluded(s, result)
  /\ UNCHANGED <<reader, free>>

----------------------------------------------------------------------------
(***************************************************************************)
(* The thread: it puts its result into the queue of its call, then gives   *)
(* the slot back, whatever the result.                                     *)
(***************************************************************************)
Read(c) ==
  /\ reader[c].at = "reading"
  /\ \E result \in Answers \cup {"UNAVAILABLE"} :
       reader' = [reader EXCEPT ![c].at = "releasing", ![c].result = result]
  /\ UNCHANGED <<search, free>>

FreedByAnswer(c) == IF reader[c].result \in Answers THEN free + 1 ELSE free
Freed(c) == free + 1
Release(c) ==
  /\ reader[c].at = "releasing"
  /\ reader' = [reader EXCEPT ![c].at = "ended"]
  /\ free' = Freed(c)
  /\ UNCHANGED search

Caller(s) == Begin(s) \/ Acquire(s) \/ NoSlot(s) \/ Take(s) \/ NoAnswer(s) \/ Post(s)
Next == \/ \E s \in Searches : Caller(s) \/ Deadline(s)
        \/ \E c \in Calls : Read(c) \/ Release(c)

\* Clocks and callers go on; a thread may stall in its read for ever.
Fairness == \A s \in Searches : WF_vars(Caller(s)) /\ WF_vars(Deadline(s))
Spec == Init /\ [][Next]_vars /\ Fairness

----------------------------------------------------------------------------
\* Every slot is free or held by a thread that works, also when its caller
\* gave up long ago: threads are bounded and slots are not lost (lines 83-99).
Holding == {c \in Calls : reader[c].at \in {"reading", "releasing"}}
SlotsAccounted == free + Cardinality(Holding) = Slots

\* Every search that is begun ends, with an answer or a failure, though all
\* the threads that hold slots may stall for ever.
SearchEnds == \A s \in Searches : search[s].at # "new" ~> search[s].at = "ended"
=============================================================================
