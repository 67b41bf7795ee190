---------------------------- MODULE TranscriptLog ----------------------------
(***************************************************************************)
(* What the Registrar promises its readers, without its rows: one log per  *)
(* generation, to which entries are only ever added at the end; at most    *)
(* one generation, the newest, hears agents; a generation that has stopped *)
(* hearing them never does again; an event is logged once, whatever is     *)
(* retried.  Module Registrar is shown to implement this.                  *)
(***************************************************************************)
EXTENDS Naturals, Sequences

CONSTANTS EventIds, Generations, Nobody

VARIABLES
  log,        \* log[g]: the entries of generation g, in order
  latest,     \* the newest generation given out, 0 before the first
  speaking    \* the generation that hears agents, or Nobody

logVars == <<log, latest, speaking>>

IsLogged(e) == \E g \in Generations : \E n \in DOMAIN log[g] : log[g][n].event = e

LogInit ==
  /\ log = [g \in Generations |-> <<>>]
  /\ latest = 0
  /\ speaking = Nobody

Add(g, e, kind) ==
  /\ g \in Generations
  /\ ~IsLogged(e)
  /\ log' = [log EXCEPT ![g] = Append(@, [event |-> e, kind |-> kind])]

\* A new generation is the newest and takes over from any earlier one.
Open ==
  /\ latest + 1 \in Generations
  /\ latest' = latest + 1
  /\ speaking' = latest + 1
  /\ UNCHANGED log

\* An agent is heard.
Speak(e) ==
  /\ speaking # Nobody
  /\ Add(speaking, e, "message")
  /\ UNCHANGED <<latest, speaking>>

\* The application adds a notice of its own to the newest generation, or to one
\* it reserves for notices alone.
Notice(e) ==
  \/ Add(latest, e, "control") /\ UNCHANGED <<latest, speaking>>
  \/ /\ Add(latest + 1, e, "control")
     /\ latest' = latest + 1
     /\ speaking = Nobody
     /\ UNCHANGED speaking

\* The generation stops hearing agents, perhaps with a last notice.
Fence ==
  /\ speaking # Nobody
  /\ speaking' = Nobody
  /\ UNCHANGED log \/ \E e \in EventIds : Add(speaking, e, "control")
  /\ UNCHANGED latest

LogNext ==
  \/ Open
  \/ Fence
  \/ \E e \in EventIds : Speak(e) \/ Notice(e)

LogSpec == LogInit /\ [][LogNext]_logVars
=============================================================================
