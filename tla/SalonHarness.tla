---------------------------- MODULE SalonHarness ----------------------------
(***************************************************************************)
(* SalonVllmConversationHarness: what becomes of a language model's output *)
(* before the coordinator of the calls sees it.                            *)
(*                                                                         *)
(* The model is asked once, and once more if its output is no decision or  *)
(* its reply cannot be spoken on a telephone.  What it says is arbitrary   *)
(* within the schema; the prompt, with the hints and dates in it, only     *)
(* makes some outputs likelier.                                            *)
(***************************************************************************)
EXTENDS SalonRules

CONSTANTS
  Names,   \* customer names
  Starts,  \* bound: the starting minutes that are asked for
  Unset, Nothing,
  Garbled, \* an answer that is no object of the schema
  Silent,  \* no answer: an error, a timeout, a body too large or no JSON
  Rejected \* no decision came of the answers

ASSUME DetailsAssumption ==
  /\ Starts \subseteq Nat
  /\ Unset \notin Starts \union Phones \union Services \union Staff \union Ids \union Names

Writes == {"book", "modify", "cancel"}
Actions == Writes \union {"availability"}

ASSUME MarksAssumption ==
  Unset \notin Actions /\ Same \notin Starts \union Names \union Phones \union Ids \union {Unset}

\* What one message can tell.  (Bound: one detail per message.)
Facts ==
  [field : {"service"}, value : Services] \union [field : {"staff"}, value : Staff]
    \union [field : {"start"}, value : Starts] \union [field : {"name"}, value : Names]
    \union [field : {"phone"}, value : Phones] \union [field : {"code"}, value : Ids]

\* A value that is none: a service or a member of staff nobody knows, a date
\* that does not exist, a number that is no telephone number.
Spoilt(fields) == [field : fields, value : {Unset}]

\* A date without a time.
DateOnly == [field |-> "date", value |-> Unset]

Claims ==
  Facts \union Spoilt({"service", "staff", "start", "phone", "code"}) \union {DateOnly, Nothing}

\* The fields of the schema.  Of a decision that is out of scope the action is
\* not looked at: the two fields are one here.
Decision ==
  [action : Actions \union {"respond", "outOfScope"}, claim : Claims, confirmed : BOOLEAN]

\* An answer of the model that is an object the schema allows, with a reply
\* that can be spoken or not.
Outputs == [decision : Decision, speakable : BOOLEAN]

ASSUME OutputsAssumption ==
  /\ Garbled # Silent /\ {Garbled, Silent} \intersect Outputs = {} /\ Rejected \notin Decision

\* _parse_turn: a number that is no telephone number is dropped; a date or a
\* code that is none spoils the decision.
Parsed(d) ==
  IF d.claim \in Spoilt({"start", "code"}) THEN Rejected
  ELSE [d EXCEPT !.claim = IF @ \in Spoilt({"phone"}) THEN Nothing ELSE @]

\* The reply is no repetition and no echo, shows nothing of the state, and is
\* short plain text.
Usable(out) ==
  out \notin {Garbled, Silent} /\ out.speakable /\ Parsed(out.decision) # Rejected

\* decide: a first request that fails is not repeated.
Decided(first, second) ==
  IF first = Silent \/ (~Usable(first) /\ ~Usable(second)) THEN Rejected
  ELSE Parsed(IF Usable(first) THEN first.decision ELSE second.decision)

\* What a body that is JSON holds, and what a request brings.
Contents == Outputs \union {Garbled}
Bodies == Contents \union {Silent}

Decisions == { Decided(first, second) : first, second \in Bodies }

=============================================================================
