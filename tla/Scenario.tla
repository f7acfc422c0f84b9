------------------------------ MODULE Scenario ------------------------------
(***************************************************************************)
(* The three test harnesses of the library: aggregate.Scenario,            *)
(* command.Scenario and query.Scenario (scenario.go of each package).      *)
(*                                                                         *)
(* A scenario is Given events, When something is done, Then an expectation *)
(* holds; AssertOn runs it and fails the test or does not.  The question   *)
(* is what a verdict is worth: what a passing test says about the code     *)
(* under test, and whether the three harnesses read a scenario alike.      *)
(*                                                                         *)
(* The code under test is a method of an aggregate (it records a batch of  *)
(* events, then may return an error of its own), a command handler around  *)
(* it (create or Get, the method, Save, and maybe an error after that) and *)
(* a query handler that answers with the events it has processed.          *)
(***************************************************************************)
EXTENDS Aggregate, FiniteSets

CONSTANTS
  Root,      \* the StreamID of the aggregate under test
  Mistakes,  \* error values that the code under test returns
  MaxGiven   \* bound: Given events

ASSUME ScenarioAssumption ==
  /\ Root \in StreamIDs
  /\ MaxGiven \in Nat /\ MaxGiven < VersionSpace
  /\ {"apply", "not found", "conflict", "nil"} \cap Mistakes = {}

VARIABLES
  harness,   \* the package: "command" or "query"
  given,     \* sc.given
  subject,   \* the code under test
  store,     \* store[id]: the Event Stream in the InMemoryStore
  recorded,  \* TrackingStore.recorded
  handled,   \* what the query handler has processed
  next,      \* how many of the given events have been stored
  held,      \* the root that the command handler works on
  err,       \* the error that the handler returned
  pc,        \* where AssertOn is
  sc,        \* the expectation
  verdict    \* "none", or whether the test passed or failed

scenarioVars == <<harness, given, subject, store, recorded, handled, next, held,
                  err, pc, sc, verdict>>

(***************************************************************************)
(* An error is the set of the error values that errors.Is finds in it; the *)
(* nil error has none.                                                     *)
(***************************************************************************)
NoError == {}

Is(e, target) == target \in e

(***************************************************************************)
(* An event.Persisted of a scenario is written by hand: its version may be *)
(* anything.  A scenario gives fewer events than there are versions.       *)
(***************************************************************************)
SeqsUpTo(S, n) == UNION {[1 .. k -> S] : k \in 0 .. n}

PersistedIn(ids) == [id : ids, version : 0 .. MaxGiven, event : Events]

Subjects ==
  [create : BOOLEAN, batch : Batches, err : SUBSET Mistakes, late : BOOLEAN]

-----------------------------------------------------------------------------
(***************************************************************************)
(* aggregate.Scenario.  The given events are taken as they are: Apply is   *)
(* called on each, whatever its stream, and its version is believed.       *)
(***************************************************************************)
AggregateGiven_VersionUnset(events) ==
  IF \E k \in DOMAIN events : events[k].event \in Unappliable
  THEN [err |-> {"apply"}, root |-> NoRoot]
  ELSE [err  |-> NoError,
        root |-> [NewRoot(Root) EXCEPT
                    !.state = [k \in DOMAIN events |-> events[k].event]]]

AggregateGiven(events) ==
  IF \E k \in DOMAIN events : events[k].event \in Unappliable
  THEN [err |-> {"apply"}, root |-> NoRoot]
  ELSE [err  |-> NoError,
        root |-> [id       |-> Root,
                  state    |-> [k \in DOMAIN events |-> events[k].event],
                  version  |-> IF events = <<>>
                               THEN 0
                               ELSE events[Len(events)].version,
                  recorded |-> <<>>]]

(***************************************************************************)
(* The method: RecordThat, and its own error.                              *)
(***************************************************************************)
Method(r, s) ==
  LET n == CHOOSE n \in 0 .. Len(s.batch) : AppliesUpTo(n, s.batch)
  IN  [root |-> RecordThat(r, s.batch, n),
       err  |-> IF n < Len(s.batch) THEN {"apply"} ELSE s.err]

AggregateWhen(events, s) ==
  LET start == IF s.create
               THEN [err |-> NoError, root |-> NewRoot(Root)]
               ELSE AggregateGiven(events)
  IN  IF start.err # NoError THEN start ELSE Method(start.root, s)

AggregateThen(v, events) ==
  [version |-> v, expected |-> events, errors |-> {}, wantErr |-> FALSE]

AggregateThenErrors(errs) ==
  [version |-> 0, expected |-> <<>>, errors |-> errs, wantErr |-> TRUE]

(***************************************************************************)
(* errors.Join drops nil errors; what is left, if anything, decides        *)
(* whether the error is looked at, and then all of them are.               *)
(***************************************************************************)
AggregateAssertOn(outcome, then) ==
  IF then.wantErr
  THEN /\ outcome.err # NoError
       /\ then.errors \ {"nil"} # {} =>
            \A e \in then.errors : Is(outcome.err, e)
  ELSE /\ outcome.err = NoError
       /\ outcome.root.recorded = then.expected
       /\ outcome.root.version = then.version

-----------------------------------------------------------------------------

ScenarioInit ==
  /\ harness \in {"command", "query"}
  /\ given \in SeqsUpTo(PersistedIn(StreamIDs), MaxGiven)
  /\ subject \in Subjects
  /\ subject.late => subject.err # NoError
  /\ harness = "query" => subject.batch = <<>> /\ ~ subject.create
                            /\ ~ subject.late
  /\ store = [id \in StreamIDs |-> <<>>]
  /\ recorded = <<>>
  /\ handled = <<>>
  /\ next = 1
  /\ held = NoRoot
  /\ err = NoError
  /\ pc = "given"
  /\ sc = <<>>
  /\ verdict = "none"

inputs == <<harness, given, subject>>

Store(id, events) == store' = [store EXCEPT ![id] = @ \o events]

(***************************************************************************)
(* require: the test has failed and goes no further.                       *)
(***************************************************************************)
FailNow ==
  /\ verdict' = "fail"
  /\ pc' = "done"
  /\ UNCHANGED <<inputs, store, recorded, handled, next, held, err, sc>>

(***************************************************************************)
(* command.Scenario.  The given events go straight to the store, with      *)
(* version.Any: their versions do not count.                               *)
(***************************************************************************)
CommandGiven_Tracked ==
  /\ harness = "command"
  /\ pc = "given"
  /\ next <= Len(given)
  /\ Store(given[next].id, <<given[next].event>>)
  /\ recorded' = Append(recorded,
       [id |-> given[next].id, event |-> given[next].event,
        version |-> Len(store[given[next].id]) + 1])
  /\ next' = next + 1
  /\ UNCHANGED <<inputs, handled, held, err, pc, sc, verdict>>

CommandGiven ==
  /\ harness = "command"
  /\ pc = "given"
  /\ next <= Len(given)
  /\ Store(given[next].id, <<given[next].event>>)
  /\ next' = next + 1
  /\ UNCHANGED <<inputs, recorded, handled, held, err, pc, sc, verdict>>

HandlerReturns(e) ==
  /\ err' = e
  /\ pc' = "assert"
  /\ UNCHANGED <<inputs, store, recorded, handled, next, held, sc, verdict>>

(***************************************************************************)
(* The handler gets its root from a constructor or from the repository,    *)
(* which streams from the store itself.                                    *)
(***************************************************************************)
NotLoaded ==
  IF Rehydrates(store[Root]) THEN {"not found"} ELSE {"apply"}

HandlerLoads ==
  LET loads == Rehydrates(store[Root]) /\ store[Root] # <<>>
  IN  /\ harness = "command"
      /\ pc = "given"
      /\ next > Len(given)
      /\ \/ /\ ~ subject.create /\ ~ loads
            /\ HandlerReturns(NotLoaded)
         \/ /\ subject.create \/ loads
            /\ held' = IF subject.create
                       THEN NewRoot(Root)
                       ELSE RehydrateFromEvents(Root, store[Root])
            /\ pc' = "method"
            /\ UNCHANGED <<inputs, store, recorded, handled, next, err, sc,
                           verdict>>

HandlerDecides ==
  LET outcome == Method(held, subject)
      goesOn  == \/ outcome.err = NoError
                 \/ outcome.err = subject.err /\ subject.late
  IN  /\ pc = "method"
      /\ \/ ~ goesOn /\ HandlerReturns(outcome.err)
         \/ /\ goesOn
            /\ held' = outcome.root
            /\ pc' = "save"
            /\ UNCHANGED <<inputs, store, recorded, handled, next, err, sc,
                           verdict>>

(***************************************************************************)
(* Save appends through the TrackingStore, unless there is nothing to      *)
(* append.  A handler may fail after that.                                 *)
(***************************************************************************)
Tracked(v, events) ==
  [k \in DOMAIN events |->
     [id |-> Root, event |-> events[k], version |-> (v - Len(events)) + k]]

HandlerSaves ==
  LET accepted == \/ held.recorded = <<>>
                  \/ Accepts(ExpectedVersion(held), Len(store[Root]))
  IN  /\ pc = "save"
      /\ \/ ~ accepted /\ HandlerReturns({"conflict"})
         \/ /\ accepted
            /\ Store(Root, held.recorded)
            /\ recorded' = recorded \o
                 Tracked(Len(store[Root]) + Len(held.recorded), held.recorded)
            /\ held' = FlushRecordedEvents(held)
            /\ err' = subject.err
            /\ pc' = "assert"
            /\ UNCHANGED <<inputs, handled, next, sc, verdict>>

(***************************************************************************)
(* Then, ThenFails, ThenError and ThenErrors.  Nothing reads an            *)
(* expectation before the handler has returned: it is chosen here.         *)
(***************************************************************************)
CommandThen(events) == [then |-> events, errors |-> {}, wantErr |-> FALSE]

CommandThenErrors(errs) == [then |-> <<>>, errors |-> errs, wantErr |-> TRUE]

CommandExpectations ==
  {CommandThen(events) :
     events \in SeqsUpTo([id : {Root}, version : 1 .. (MaxGiven + MaxBatch),
                          event : Events], MaxBatch)}
    \cup {CommandThenErrors(errs) : errs \in SUBSET (Mistakes \cup {"nil"})}

CommandMatches(then) ==
  IF then.wantErr
  THEN /\ err # NoError
       /\ then.errors \ {"nil"} # {} => \A e \in then.errors : Is(err, e)
  ELSE err = NoError /\ then.then = recorded

Judge(then, passes) ==
  /\ sc' = then
  /\ verdict' = IF passes THEN "pass" ELSE "fail"
  /\ pc' = "done"
  /\ UNCHANGED <<inputs, store, recorded, handled, next, held, err>>

CommandAssertOn ==
  /\ harness = "command"
  /\ pc = "assert"
  /\ \E then \in CommandExpectations : Judge(then, CommandMatches(then))

(***************************************************************************)
(* query.Scenario.  Each given event is stored at the version it carries,  *)
(* then processed; both have to succeed.                                   *)
(***************************************************************************)
QueryCheck_Any(evt) == TRUE

QueryCheck(evt) == Accepts(Minus(evt.version, 1), Len(store[evt.id]))

QueryGiven ==
  LET evt == given[next]
  IN  /\ harness = "query"
      /\ pc = "given"
      /\ next <= Len(given)
      /\ IF ~ QueryCheck(evt)
         THEN FailNow
         ELSE /\ Store(evt.id, <<evt.event>>)
              /\ pc' = "process"
              /\ UNCHANGED <<inputs, recorded, handled, next, held, err, sc,
                             verdict>>

QueryProcess ==
  LET evt == given[next]
  IN  /\ pc = "process"
      /\ IF evt.event \in Unappliable
         THEN FailNow
         ELSE /\ handled' = Append(handled, evt)
              /\ next' = next + 1
              /\ pc' = "given"
              /\ UNCHANGED <<inputs, store, recorded, held, err, sc, verdict>>

QueryHandle ==
  /\ harness = "query"
  /\ pc = "given"
  /\ next > Len(given)
  /\ HandlerReturns(subject.err)

QueryThen(result) ==
  [then |-> result, thenError |-> "nil", wantError |-> FALSE]

QueryThenError(e) == [then |-> <<>>, thenError |-> e, wantError |-> TRUE]

QueryExpectations ==
  {QueryThen(result) : result \in SeqsUpTo(Events, MaxGiven)}
    \cup {QueryThenError(e) : e \in Mistakes \cup {"nil"}}

Answer == [k \in DOMAIN handled |-> handled[k].event]

QueryMatches(then) ==
  IF then.wantError
  THEN err # NoError /\ (then.thenError # "nil" => Is(err, then.thenError))
  ELSE err = NoError /\ then.then = Answer

QueryAssertOn ==
  /\ harness = "query"
  /\ pc = "assert"
  /\ \E then \in QueryExpectations : Judge(then, QueryMatches(then))

-----------------------------------------------------------------------------

ScenarioNext ==
  \/ CommandGiven
  \/ HandlerLoads
  \/ HandlerDecides
  \/ HandlerSaves
  \/ CommandAssertOn
  \/ QueryGiven
  \/ QueryProcess
  \/ QueryHandle
  \/ QueryAssertOn

ScenarioSpec == ScenarioInit /\ [][ScenarioNext]_scenarioVars

-----------------------------------------------------------------------------

(***************************************************************************)
(* The type invariant.  The versions that the TrackingStore reconstructs   *)
(* count from 1, as those of the store do.                                 *)
(***************************************************************************)
ScenarioTypeOK ==
  /\ store \in [StreamIDs -> Seq(Events)]
  /\ recorded \in Seq([id : {Root}, version : Nat \ {0}, event : Events])
  /\ handled \in Seq(PersistedIn(StreamIDs))
  /\ next \in 1 .. (Len(given) + 1)
  /\ held \in Roots \cup {NoRoot}
  /\ err \subseteq Mistakes \cup {"apply", "not found", "conflict"}
  /\ pc \in {"given", "method", "save", "process", "assert", "done"}
  /\ verdict \in {"none", "pass", "fail"}
  /\ sc \in {<<>>} \cup CommandExpectations \cup QueryExpectations

(***************************************************************************)
(* How many of the first n given events are events of the stream id.       *)
(***************************************************************************)
GivenTo(id, n) == Cardinality({k \in 1 .. n : given[k].id = id})

Before == GivenTo(Root, Len(given))

Produced ==
  [k \in 1 .. (Len(store[Root]) - Before) |->
     [id      |-> Root,
      version |-> Before + k,
      event   |-> store[Root][Before + k]]]

ThenMeansProduced ==
  ~ sc.wantErr => (verdict = "pass" <=> err = NoError /\ sc.then = Produced)

ThenErrorsMatchesAll ==
  sc.wantErr =>
    /\ verdict = "pass" => err # NoError /\ sc.errors \ {"nil"} \subseteq err
    /\ err # NoError /\ sc.errors \subseteq err => verdict = "pass"

(***************************************************************************)
(* A verdict tells the outcome (command/scenario.go).  "Then sets a        *)
(* positive expectation on the scenario outcome, to produce the Domain     *)
(* Events provided in input": the test passes exactly if the handler       *)
(* returned nil and what the Event Stream holds beyond the given events    *)
(* are those events, at those versions.  "Use this method when you want to *)
(* assert that the error returned by the domain command matches ALL of the *)
(* errors specified": a negative test passes only if the handler failed    *)
(* with each of them, nil errors aside, and does pass then if none of them *)
(* is nil.                                                                 *)
(***************************************************************************)
VerdictTellsOutcome ==
  harness = "command" /\ pc = "done" =>
    ThenMeansProduced /\ ThenErrorsMatchesAll

(***************************************************************************)
(* One scenario, two harnesses, one verdict: with given events that are    *)
(* those of an Event Stream (one stream, its versions, from the first), a  *)
(* test of the aggregate's method and a test of the command handler around *)
(* it pass or fail together.                                               *)
(***************************************************************************)
GivenIsAStream ==
  /\ subject.create <=> given = <<>>
  /\ \A k \in DOMAIN given : given[k].id = Root /\ given[k].version = k

ThenFollows ==
  \A k \in DOMAIN sc.then : sc.then[k].version = Len(given) + k

AggregateReading ==
  IF sc.wantErr
  THEN AggregateThenErrors(sc.errors)
  ELSE AggregateThen(Len(given) + Len(sc.then),
                     [k \in DOMAIN sc.then |-> sc.then[k].event])

ScenariosAgree ==
  harness = "command" /\ pc = "done" /\ GivenIsAStream /\ ThenFollows =>
    (verdict = "pass" <=>
       AggregateAssertOn(AggregateWhen(given, subject), AggregateReading))

(***************************************************************************)
(* A test of a query handler that passes, expecting an error or not, has   *)
(* run on a history that can exist: the given events are the contents of   *)
(* the store, each at the version it carries, which is its place among the *)
(* given events of its stream, and the handler has processed every one of  *)
(* them, in order, before it answered.                                     *)
(***************************************************************************)
QueryRanOnAHistory ==
  harness = "query" /\ verdict = "pass" =>
    /\ handled = given
    /\ \A id \in StreamIDs : Len(store[id]) = GivenTo(id, Len(given))
    /\ \A k \in DOMAIN given :
         LET evt == given[k]
         IN  /\ evt.version = GivenTo(evt.id, k)
             /\ store[evt.id][evt.version] = evt.event

=============================================================================
