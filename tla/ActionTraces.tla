----------------------------- MODULE ActionTraces -----------------------------
(***************************************************************************)
(* The two recorders of replayable traces: the observer's own (main.swift, *)
(* ActionTrace.swift) and the content script's (content.ts, trace.ts).     *)
(*                                                                         *)
(* Each interaction makes two records: an event for the pattern engine and *)
(* an observation for the trace.  The event leaves at once and carries a   *)
(* stamp, the trace and step it will be; the trace is put together later,  *)
(* from what is left in a bounded buffer, by gating it all over again.     *)
(***************************************************************************)
EXTENDS Values

CONSTANTS
  BufferCap,        \* maxTraceObservations, MAX_SESSION_OBSERVATIONS
  MaxObservations   \* bound: interactions observed

ASSUME BufferAssumption == BufferCap \in Nat \ {0} /\ MaxObservations \in Nat

VARIABLES
  recorder,  \* per source: the trace id (0 for none), steps assigned, the buffer
  onList,    \* the app worked in is on the observer's allowlist
  nextTrace, observed, \* ids given to traces and to interactions
  stamped,   \* events sent, with their stamps
  traces     \* traces sent

traceVars == <<recorder, onList, nextTrace, observed, stamped, traces>>

Sources == {"native", "browser"}
Fresh == [id |-> 0, steps |-> 0, buffer |-> <<>>]

TracesInit ==
  /\ recorder = [s \in Sources |-> Fresh] /\ onList = TRUE
  /\ nextTrace = 1 /\ observed = 0 /\ stamped = {} /\ traces = {}

\* An interaction happens in an open place, a secure field, or an app denied by its bundle id or by
\* its display name alone.
Kinds == {"read", "write", "press"}

\* protectedReason, classifyField
ProtectedReason(place) == place = "secure"

\* decideObservation: what the live gate makes of it.
Decide(s, place) ==
  IF place \in {"bundle", "name"} THEN "boundary"
  ELSE IF s = "native" /\ ~onList THEN "drop"
  ELSE IF ProtectedReason(place) THEN "boundary" ELSE "emit"

\* The gate at assembly: asked again, with the list of that moment and without the app's name.
DecideAgain(s, place) ==
  IF place = "name" THEN Decide(s, "open") ELSE Decide(s, place)

\* ActionTrace.assemble, assembleTrace: a value read flows into the next write and into no other;
\* what is cut out of the trace cuts the flow as well.
CutKeepsValue(acc) == acc \* a mutant
CutOut(acc) == [acc EXCEPT !.lastRead = 0]

AddStep(acc, o) ==
  LET order == IF o.order # 0 THEN o.order ELSE acc.max + 1
  IN [max |-> IF order > acc.max THEN order ELSE acc.max,
      lastRead |-> CASE o.kind = "read" -> order [] o.kind = "write" -> 0 [] OTHER -> acc.lastRead,
      steps |-> Append(acc.steps, [order |-> order, nr |-> o.nr, place |-> o.place, kind |-> o.kind,
                                   from |-> IF o.kind = "write" THEN acc.lastRead ELSE 0])]

Assemble(s, buffer) ==
  LET upTo[n \in 0..Len(buffer)] ==
        IF n = 0 THEN [max |-> 0, lastRead |-> 0, steps |-> <<>>]
        ELSE IF DecideAgain(s, buffer[n].place) = "emit" THEN AddStep(upTo[n - 1], buffer[n]) ELSE CutOut(upTo[n - 1])
  IN upTo[Len(buffer)].steps

\* flushTrace, TraceSession.flush: nothing is sent when nothing survived, and the id ends here.
Flushed(s, rec) ==
  LET steps == Assemble(s, rec.buffer)
  IN IF steps = <<>> THEN {} ELSE {[id |-> rec.id, source |-> s, steps |-> steps, buffer |-> rec.buffer]}

\* recordObservation, TraceSession.push: the id is made with the first observation, the oldest one
\* makes room, and only what was not refused is numbered.
Numbered(rec, o) == [o EXCEPT !.order = IF o.order # 0 THEN rec.steps + 1 ELSE 0]
Push(rec, o) ==
  [id |-> IF rec.id = 0 THEN nextTrace ELSE rec.id,
   steps |-> rec.steps + (IF o.order # 0 THEN 1 ELSE 0),
   buffer |-> Append(IF Len(rec.buffer) >= BufferCap THEN Tail(rec.buffer) ELSE rec.buffer, Numbered(rec, o))]

\* emitSemantic, buildSemanticEvent: the event of the same interaction, with the stamp.
Stamp(rec, o) == [ref |-> rec.id, order |-> rec.steps, nr |-> o.nr]

Observation(s, place, kind) ==
  [nr |-> observed + 1, place |-> place, kind |-> kind, order |-> IF Decide(s, place) = "emit" THEN 1 ELSE 0]

\* One interaction joins rec, the recorder of s; what leaves with it is already flushed.
Record(s, rec, o, leaves, after) ==
  /\ observed < MaxObservations /\ observed' = observed + 1
  /\ nextTrace' = IF rec.id = nextTrace THEN nextTrace + 1 ELSE nextTrace
  /\ stamped' = IF o.order # 0 THEN stamped \cup {Stamp(rec, o)} ELSE stamped
  /\ recorder' = [recorder EXCEPT ![s] = after]
  /\ traces' = traces \cup leaves
  /\ UNCHANGED onList

\* handleAxNotification: the observer flushes first when the user was idle, and never otherwise.
HandleAxNotification(place, kind, idle) ==
  LET o == Observation("native", place, kind)
      rec == Push(IF idle THEN Fresh ELSE recorder["native"], o)
  IN /\ Decide("native", place) # "drop"
     /\ Record("native", rec, o, IF idle THEN Flushed("native", recorder["native"]) ELSE {}, rec)

\* observe, send: the content script flushes when its buffer is full.
ObservePage(place, kind) ==
  LET o == Observation("browser", place, kind)
      rec == Push(recorder["browser"], o)
      full == Len(rec.buffer) >= BufferCap
  IN Record("browser", rec, o, IF full THEN Flushed("browser", rec) ELSE {}, IF full THEN Fresh ELSE rec)

\* The idle timer of the content script, and a page that goes away.
FlushTrace ==
  /\ recorder["browser"].buffer # <<>>
  /\ recorder' = [recorder EXCEPT !["browser"] = Fresh]
  /\ traces' = traces \cup Flushed("browser", recorder["browser"])
  /\ UNCHANGED <<onList, nextTrace, observed, stamped>>

\* A configure line changes the observer's allowlist, in the middle of a session.
Reconfigure ==
  /\ onList' = ~onList /\ UNCHANGED <<recorder, nextTrace, observed, stamped, traces>>

TracesNext ==
  \/ \E place \in {"open", "secure", "bundle", "name"}, kind \in Kinds, idle \in BOOLEAN :
       HandleAxNotification(place, kind, idle)
  \/ \E place \in {"open", "secure"}, kind \in Kinds : ObservePage(place, kind)
  \/ FlushTrace \/ Reconfigure

TracesSpec == TracesInit /\ [][TracesNext]_traceVars

-----------------------------------------------------------------------------
Denied(o) == o.place # "open"

\* A trace says what was seen: its steps are numbered apart, none of them was refused, a stamp leads
\* to the step of the same interaction, and a value flows from a read to the first write after it,
\* with nothing refused, read or written in between.
Sound(t) ==
  \A i \in DOMAIN t.steps :
    /\ ~Denied(t.steps[i])
    /\ \A j \in DOMAIN t.steps : i # j => t.steps[i].order # t.steps[j].order
    /\ \A e \in stamped : e.ref = t.id /\ e.order = t.steps[i].order => e.nr = t.steps[i].nr
    /\ t.steps[i].from # 0 =>
         \E j \in 1..(i - 1) :
           /\ t.steps[j].order = t.steps[i].from /\ t.steps[j].kind = "read"
           /\ \A k \in DOMAIN t.buffer :
                t.steps[j].nr < t.buffer[k].nr /\ t.buffer[k].nr < t.steps[i].nr =>
                  ~Denied(t.buffer[k]) /\ t.buffer[k].kind = "press"

\* Traces are sound unless an app was refused by its display name alone.
TracesAreSound == \A t \in traces : (\A k \in DOMAIN t.buffer : t.buffer[k].place # "name") => Sound(t)

\* "A refused notification becomes a HOLE in the trace, never a step."
RefusedIsAHole == \A t \in traces : \A i \in DOMAIN t.steps : ~Denied(t.steps[i])
=============================================================================
