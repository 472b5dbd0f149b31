-------------------------------- MODULE Methods --------------------------------
(***************************************************************************)
(* Which handler takes a call of a method, and in which process: Method of *)
(* conventions/core.js over the middleware in ioMiddleware/, and the       *)
(* methods of the models.                                                  *)
(*                                                                         *)
(* A process hosts the model it is named after.  A handler is the sequence *)
(* of what it runs: a database operation, a logical handler, "send" for an *)
(* Event to the host, or "unsupported".  Browsers are left out.            *)
(***************************************************************************)
EXTENDS Naturals, Sequences

IoModels == {"Event", "EventResult", "EventNotification"}

\* A stack of middleware above a logical handler; a name that is neither "http",
\* "mq" nor "cron" is an operation of mongo.
Method(io, logic) == [io |-> io, logic |-> logic]
Stack(io) == Method(io, "default")

ThingMethods ==
  [verifyIds   |-> Method(<<>>, "verifyIds"),
   count       |-> Stack(<<"mq", "count">>),
   ensureIndex |-> Stack(<<"cron", "index", "index">>),
   insert      |-> Stack(<<"http", "mq", "insert">>),
   find        |-> Stack(<<"http", "mq", "find">>),
   remove      |-> Stack(<<"http", "mq", "remove">>),
   greetRobot  |-> Method(<<"http">>, "give"),
   greetHuman  |-> Method(<<"http">>, "give")]

\* No file has the name of the handler of the last two.
GreetingMethods ==
  [insert          |-> Stack(<<"mq", "insert">>),
   ensureIndex     |-> Stack(<<"cron", "index", "index">>),
   find            |-> Stack(<<"http", "mq", "find">>),
   remove          |-> Stack(<<"http", "mq", "remove">>),
   removeByRobotId |-> Method(<<"mq">>, "execOpByLookup"),
   removeByHumanId |-> Method(<<"mq">>, "execOpByLookup")]

IoMethods == [find |-> Stack(<<"find">>), insert |-> Stack(<<"insert">>)]

Methods ==
  [M \in {"Human", "Robot", "Greeting"} \cup IoModels |->
     IF M \in IoModels THEN IoMethods ELSE IF M = "Greeting" THEN GreetingMethods ELSE ThingMethods]

-----------------------------------------------------------------------------
(* The middleware, above a handler that was composed before it.            *)

\* http and cron give the handler beneath to a route or a job of the host.
Http(beneath) == beneath
Cron(beneath) == beneath

\* mq gives it to the Events of the host, and sends an Event from elsewhere.
Mq(isHost, beneath) == IF isHost THEN beneath ELSE <<"send">>

\* mongo executes at the host, or for what travels.  index goes on beneath.
Mongo(op, isHost, isIoModel, beneath) ==
  CASE ~ isHost /\ ~ isIoModel -> <<"unsupported">>
    [] op = "index"            -> <<op>> \o beneath
    [] OTHER                   -> <<op>>

Middleware(M, process, io, beneath) ==
  CASE io = "http" -> Http(beneath)
    [] io = "cron" -> Cron(beneath)
    [] io = "mq"   -> Mq(process = M, beneath)
    [] OTHER       -> Mongo(io, process = M, M \in IoModels, beneath)

-----------------------------------------------------------------------------
(* bind.                                                                   *)

\* Mutant: the middleware that is stacked first is composed first.
MutantComposed(M, process, stack, logic) ==
  LET upto[k \in 0 .. Len(stack)] ==
        IF k = 0 THEN <<logic>> ELSE Middleware(M, process, stack[k], upto[k - 1])
  IN  upto[Len(stack)]

\* What is stacked last is composed first, above the logical handler: from[k] is
\* composed of the middleware from k on.
Composed(M, process, stack, logic) ==
  LET from[k \in 1 .. Len(stack) + 1] ==
        IF k > Len(stack) THEN <<logic>> ELSE Middleware(M, process, stack[k], from[k + 1])
  IN  from[1]

\* What takes a call of M.m in a process.
Handler(M, process, m) == Composed(M, process, Methods[M][m].io, Methods[M][m].logic)

\* What takes a request or an Event for M.m in the process that hosts M: the
\* handler beneath the middleware it comes in through.
Beneath(M, m, io) ==
  LET stack == Methods[M][m].io
  IN  Composed(M, M, SubSeq(stack, 1 + CHOOSE k \in DOMAIN stack : stack[k] = io, Len(stack)),
               Methods[M][m].logic)
=============================================================================
