----------------------------- MODULE TodoServer -----------------------------
(***************************************************************************)
(* The process around the TodoList service (examples/todolist/main.go):    *)
(* run starts the HTTP server on a goroutine of its own, waits for a       *)
(* signal or for the server to give up, and shuts the server down.         *)
(*                                                                         *)
(* http.Server (external) is modelled by what run relies on: Shutdown lets *)
(* no request in any more and waits for those that are being served, until *)
(* its context expires; ListenAndServe returns ErrServerClosed once        *)
(* Shutdown has been called, also if it is called only then.               *)
(***************************************************************************)
EXTENDS TodoList

VARIABLES
  signalled,   \* SIGINT or SIGTERM has arrived
  listener,    \* "new", "open", or how ListenAndServe has returned
  serverErrs,  \* what is in the channel: "empty", "nil" or "error"
  main,        \* where run is: "select", "shutdown" or "returned"
  exit         \* "none", or what run returned: "nil" or "error"

processVars == <<signalled, listener, serverErrs, main, exit>>

serverVars == <<listVars, processVars>>

ServerInit ==
  /\ ListInit
  /\ signalled = FALSE
  /\ listener = "new"
  /\ serverErrs = "empty"
  /\ main = "select"
  /\ exit = "none"

Running == exit = "none"

InFlight == {r \in Requests : pc[r] \notin {"idle", "answered"}}

(***************************************************************************)
(* The goroutine of the server.                                            *)
(***************************************************************************)
Listen ==
  /\ Running
  /\ listener = "new"
  /\ main = "select"
  /\ listener' = "open"
  /\ UNCHANGED <<listVars, signalled, serverErrs, main, exit>>

ListenAndServeFails ==
  /\ Running
  /\ listener \in {"new", "open"}
  /\ main = "select"
  /\ listener' = "failed"
  /\ serverErrs' = "error"
  /\ UNCHANGED <<listVars, signalled, main, exit>>

ListenAndServeCloses ==
  /\ Running
  /\ listener \in {"new", "open"}
  /\ main = "shutdown"
  /\ listener' = "closed"
  /\ serverErrs' = "nil"
  /\ UNCHANGED <<listVars, signalled, main, exit>>

(***************************************************************************)
(* run.                                                                    *)
(***************************************************************************)
Signal ==
  /\ Running
  /\ ~ signalled
  /\ signalled' = TRUE
  /\ UNCHANGED <<listVars, listener, serverErrs, main, exit>>

SelectDone_OnceListening ==
  /\ main = "select"
  /\ signalled
  /\ listener = "open"
  /\ main' = "shutdown"
  /\ UNCHANGED <<listVars, signalled, listener, serverErrs, exit>>

SelectDone ==
  /\ main = "select"
  /\ signalled
  /\ main' = "shutdown"
  /\ UNCHANGED <<listVars, signalled, listener, serverErrs, exit>>

RunReturns(err) ==
  /\ main' = "returned"
  /\ exit' = err
  /\ UNCHANGED <<listVars, signalled, listener, serverErrs>>

SelectServerErr ==
  /\ main = "select"
  /\ serverErrs # "empty"
  /\ RunReturns(serverErrs)

ShutdownCompletes_Close ==
  /\ main = "shutdown"
  /\ RunReturns("nil")

ShutdownCompletes ==
  /\ main = "shutdown"
  /\ InFlight = {}
  /\ RunReturns("nil")

ShutdownTimesOut ==
  /\ main = "shutdown"
  /\ RunReturns("error")

(***************************************************************************)
(* Requests come in while the server listens.  When run returns, main ends *)
(* the process, and with it the requests being served.                     *)
(***************************************************************************)
Accept(r) ==
  /\ Running
  /\ listener = "open"
  /\ main = "select"
  /\ Send(r)
  /\ UNCHANGED processVars

Serve(r) ==
  /\ Running
  /\ Step(r)
  /\ UNCHANGED processVars

Run ==
  \/ SelectDone
  \/ SelectServerErr
  \/ ShutdownCompletes
  \/ ShutdownTimesOut

ServerNext ==
  \/ Listen
  \/ ListenAndServeFails
  \/ ListenAndServeCloses
  \/ Signal
  \/ Run
  \/ \E r \in Requests : Accept(r) \/ Serve(r)

ServerSpec == ServerInit /\ [][ServerNext]_serverVars

(***************************************************************************)
(* The goroutines of run and of the requests are scheduled, and the timer  *)
(* of the shutdown's context fires.                                        *)
(***************************************************************************)
FairServerSpec ==
  /\ ServerSpec
  /\ WF_serverVars(Run)
  /\ \A r \in Requests : WF_serverVars(Serve(r))

-----------------------------------------------------------------------------

(***************************************************************************)
(* The type invariant, with the one of the service: what is in the channel *)
(* is how ListenAndServe returned.                                         *)
(***************************************************************************)
ServerTypeOK ==
  /\ ListTypeOK
  /\ signalled \in BOOLEAN
  /\ <<listener, serverErrs>> \in {<<"new", "empty">>, <<"open", "empty">>,
                                  <<"failed", "error">>, <<"closed", "nil">>}
  /\ main \in {"select", "shutdown", "returned"}
  /\ exit \in {"none", "nil", "error"}

(***************************************************************************)
(* "graceful shutdown": run returns nil only after a signal, and only when *)
(* no request is cut off; each that was let in has had its response.       *)
(***************************************************************************)
NilMeansGraceful == exit = "nil" => signalled /\ InFlight = {}

(***************************************************************************)
(* The process obeys: after a signal run returns, whatever the server and  *)
(* the requests are doing.                                                 *)
(***************************************************************************)
SignalEndsProcess == signalled ~> exit # "none"

(***************************************************************************)
(* A request that was let in is answered, unless the process ends first:   *)
(* no request waits for another one.                                       *)
(***************************************************************************)
RequestsAreAnswered ==
  \A r \in Requests : r \in InFlight ~> (r \notin InFlight \/ exit # "none")

=============================================================================
