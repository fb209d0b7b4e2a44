------------------------------ MODULE Pipeline ------------------------------
(***************************************************************************)
(* MessagePipeline: middlewares around a list of processors.  A hook of    *)
(* either has one of three outcomes: nothing to say ("pass"), a response   *)
(* ("answer"), or an error ("fail").  A middleware is [priority, before],  *)
(* a processor is [name, outcome].  What the hooks after a frame make of   *)
(* the response goes nowhere: the server ignores it, and a client only     *)
(* logs it.                                                                *)
(***************************************************************************)
EXTENDS Naturals, FiniteSets, SequencesExt

Outcomes == {"pass", "answer", "fail"}
Middleware == [priority : Nat, before : Outcomes]
Processor == [name : STRING, outcome : Outcomes]

NewPipeline == [middlewares |-> <<>>, processors |-> <<>>]

(* add_middleware: sorted by priority, equal ones in the order they came.  *)
AddMiddleware(mws, m) ==
  LET n == Cardinality({i \in DOMAIN mws : mws[i].priority <= m.priority})
  IN SubSeq(mws, 1, n) \o <<m>> \o SubSeq(mws, n + 1, Len(mws))
AddMiddlewares(pipe, ms) ==
  [pipe EXCEPT !.middlewares = FoldLeft(AddMiddleware, @, ms)]

(* add_processor for each of ps in turn: they stay in the order added.     *)
AddProcessors(pipe, ps) == [pipe EXCEPT !.processors = @ \o ps]

(* Where a list of outcomes stops: the first that is not "pass".           *)
StopAt(outcomes) ==
  LET stops == {i \in DOMAIN outcomes : outcomes[i] # "pass"}
  IN IF stops = {} THEN Len(outcomes)
     ELSE CHOOSE i \in stops : \A j \in stops : i <= j
Outcome(outcomes) ==
  IF outcomes = <<>> THEN "pass" ELSE outcomes[StopAt(outcomes)]

Before(pipe) == Outcome([i \in DOMAIN pipe.middlewares |-> pipe.middlewares[i].before])
Processors(pipe) == [i \in DOMAIN pipe.processors |-> pipe.processors[i].outcome]

(* The processors a frame gets to: none if a middleware answers or fails.  *)
Reached(pipe) ==
  IF Before(pipe) # "pass" THEN {}
  ELSE {pipe.processors[i].name : i \in 1 .. StopAt(Processors(pipe))}
=============================================================================
