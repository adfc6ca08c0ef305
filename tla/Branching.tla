------------------------------- MODULE Branching -------------------------------
(***************************************************************************)
(* The deterministic conversation flow of an intake: which question comes   *)
(* next (modules/assessments/branching.ts, and advance in service.ts).      *)
(*                                                                         *)
(* Fact values are the classes normalizeValue tells apart; Blank is the     *)
(* empty string, which a fact may hold and which still counts as missing.   *)
(* `asked' counts how often askedQuestionKeys holds a key: the code never   *)
(* looks at the order of that array, and it does look at the count.         *)
(***************************************************************************)
EXTENDS Integers, Sequences, FiniteSetsExt

CONSTANTS
  Questions,   \* question keys
  FactKeys,    \* fact keys
  Values,      \* fact values
  Blank,       \* the empty string, one of Values
  Nothing      \* undefined or null

ASSUME BranchingOK == Blank \in Values /\ Nothing \notin Values \cup Questions \cup FactKeys

\* What is pinned when a scenario is selected: the persona and scenario, the flow with
\* its showIf gates, the questions of it and their follow-ups, the required facts.
Pinned(Personas, Scenarios) ==
  [persona   : Personas,
   scenario  : Scenarios,
   flow      : Seq(Questions),
   gate      : [Questions -> [fact : FactKeys, equals : Values] \cup {Nothing}],
   questions : SUBSET Questions,
   order     : Seq(Questions),
   fact      : [Questions -> FactKeys],
   trigger   : [Questions -> [on : Values, follow : Seq(Questions)] \cup {Nothing}],
   freeText  : SUBSET Questions,
   required  : Seq(FactKeys)]

\* pinVersions refuses a flow or a follow-up without its question; restorePinnedQuestions
\* refuses an empty set of questions and lists the others by key.
Consistent(c) ==
  /\ c.questions # {}
  /\ \A i \in DOMAIN c.flow : c.flow[i] \in c.questions
  /\ \A k \in c.questions : c.trigger[k] # Nothing =>
       \A i \in DOMAIN c.trigger[k].follow : c.trigger[k].follow[i] \in c.questions
  /\ \A i \in DOMAIN c.order : c.order[i] \in c.questions
  /\ \A k \in c.questions : \E i \in DOMAIN c.order : c.order[i] = k

-------------------------------------------------------------------------------
\* showIf of a flow node: an unknown fact never matches.
Open(c, k, facts) == c.gate[k] = Nothing \/ facts[c.gate[k].fact] = c.gate[k].equals

\* The positions of the queue that nextQuestion does not skip.
Askable(c, queue, asked, facts) ==
  {i \in DOMAIN queue : /\ asked[queue[i]] = 0
                        /\ queue[i] \in c.questions
                        /\ Open(c, queue[i], facts)}

nextQuestion(c, queue, asked, facts) ==
  LET askable == Askable(c, queue, asked, facts)
      i       == Min(askable)
  IN  IF askable = {}
        THEN [question |-> Nothing, queue |-> <<>>]
        ELSE [question |-> queue[i], queue |-> SubSeq(queue, i + 1, Len(queue))]

Triggered(c, k, value) == c.trigger[k] # Nothing /\ value = c.trigger[k].on

\* The members of `keep' in sequence s, in their order.  (A recursive function, since the
\* provers know nothing of SelectSeq.)
Kept(s, keep) ==
  LET upTo[n \in 0..Len(s)] ==
        IF n = 0 THEN <<>>
        ELSE IF s[n] \in keep THEN Append(upTo[n - 1], s[n])
        ELSE upTo[n - 1]
  IN  upTo[Len(s)]

\* The follow-ups of k that are neither asked nor waiting, in their order.
FollowUps(c, k, queue, asked) ==
  Kept(c.trigger[k].follow, {f \in Questions : asked[f] = 0 /\ \A i \in DOMAIN queue : queue[i] # f})

\* Mutation: the follow-ups replace what was waiting.
applyBranchDropping(c, k, value, queue, asked) ==
  IF Triggered(c, k, value) THEN FollowUps(c, k, queue, asked) ELSE queue

\* The follow-ups of a question whose trigger matches the answer go to the front.
applyBranch(c, k, value, queue, asked) ==
  IF Triggered(c, k, value) THEN FollowUps(c, k, queue, asked) \o queue ELSE queue

\* Required facts not yet captured, as positions in the list of required facts.
missingRequired(c, facts) ==
  {i \in DOMAIN c.required : facts[c.required[i]] \in {Nothing, Blank}}

-------------------------------------------------------------------------------
Producers(c, f) == {i \in DOMAIN c.order : c.fact[c.order[i]] = f}

\* The first question, by key, that produces fact f.
Producer(c, f) == c.order[Min(Producers(c, f))]

\* The missing facts advance may ask for again.
ReAskable(c, asked, facts) ==
  {i \in missingRequired(c, facts) :
     /\ Producers(c, c.required[i]) # {}
     /\ asked[Producer(c, c.required[i])] < 2}

\* The next question of the queue is pending.
Ask(step, asked) ==
  [queue |-> step.queue, current |-> step.question, asked |-> asked,
   phase |-> "questions", status |-> "in_progress"]

\* Mutation: the question stays among the asked ones.
AskAgainKeeping(k, asked, phase) ==
  [queue |-> <<>>, current |-> k, asked |-> asked, phase |-> phase, status |-> "in_progress"]

\* Question k is pending once more; the phase stays what it was.
AskAgain(k, asked, phase) ==
  [queue |-> <<>>, current |-> k, asked |-> [asked EXCEPT ![k] = 0],
   phase |-> phase, status |-> "in_progress"]

\* The intake is over.
Finish(asked) ==
  [queue |-> <<>>, current |-> Nothing, asked |-> asked,
   phase |-> "done", status |-> "intake_complete"]

\* What advance leaves in the document.
advance(c, queue, asked, facts, phase) ==
  LET step  == nextQuestion(c, queue, asked, facts)
      again == ReAskable(c, asked, facts)
  IN  IF step.question # Nothing THEN Ask(step, asked)
      ELSE IF again # {} THEN AskAgain(Producer(c, c.required[Min(again)]), asked, phase)
      ELSE Finish(asked)
===============================================================================
