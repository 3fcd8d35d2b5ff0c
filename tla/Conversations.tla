--------------------------- MODULE Conversations ---------------------------
(***************************************************************************)
(* Which requests belong to one conversation (identity_from,               *)
(* src/src/affinity.rs), over the pin map that is used with the answer.    *)
(* Clients send the whole conversation each time, one turn longer.         *)
(*                                                                         *)
(* A text is its head, as much of it as the caps let into the hash, and    *)
(* the rest; a text with a rest leaves no room for the role, which is      *)
(* serialized after it.  The hash is taken to tell apart whatever it is    *)
(* given.                                                                  *)
(***************************************************************************)
EXTENDS AffinityMap

CONSTANTS Openings,      \* the first requests of conversations
          Replies,       \* the messages of later turns
          MaxMessages    \* bound: messages in a request

VARIABLE body    \* the latest request

vars == <<pins, body>>

Text(head, rest)    == [head |-> head, rest |-> rest]
Message(role, text) == [role |-> role, text |-> text]

Absent     == "absent"
NoText     == Text(Absent, Absent)
NoMessages == <<Message(Absent, NoText)>>    \* no array of messages

(* A body that is not JSON has neither model nor messages nor prompt. *)
Request(path, model, messages, prompt) ==
  [path |-> path, model |-> model, messages |-> messages, prompt |-> prompt]

ChatPaths   == {"api/chat", "v1/chat/completions"}
PromptPaths == {"api/generate", "v1/completions"}

(* is_affine_path *)
IsAffine(path) == path \in ChatPaths \cup PromptPaths

FamilyOf(path) == IF path \in {"v1/chat/completions", "v1/completions"} THEN "v1" ELSE "api"

NoIdentity == [family |-> Absent, model |-> Absent, parts |-> <<>>]

IdentityBy(b, parts) == [family |-> FamilyOf(b.path), model |-> b.model, parts |-> parts]

PartOf(message) ==
  <<message.text.head, IF message.text.rest = "" THEN message.role ELSE Absent>>

(* The first message that is not a system message ends the prefix. *)
Cuts(messages) == {i \in DOMAIN messages : messages[i].role # "system"}
CutOf(messages) == CHOOSE i \in Cuts(messages) : \A j \in Cuts(messages) : i <= j

(* Variants with a mistake: the prefix ends one message early; it does not end. *)
PrefixShort(messages) == [i \in 1..(CutOf(messages) - 1) |-> PartOf(messages[i])]
PrefixWhole(messages) == [i \in DOMAIN messages |-> PartOf(messages[i])]

Prefix(messages) == [i \in 1..CutOf(messages) |-> PartOf(messages[i])]

HasPrefix(messages) == messages # NoMessages /\ Cuts(messages) # {}

(* identity_from: no model, no messages or only system messages: none. *)
Named(b) == IsAffine(b.path) /\ b.model \notin {Absent, ""}

IdentityOf(b) ==
  CASE Named(b) /\ b.path \in ChatPaths /\ HasPrefix(b.messages) -> IdentityBy(b, Prefix(b.messages))
    [] Named(b) /\ b.path \in PromptPaths /\ b.prompt # NoText -> IdentityBy(b, <<<<b.prompt.head>>>>)
    [] OTHER -> NoIdentity

(* What clients send, and the ids the pin map is asked about. *)
Texts    == [head : STRING, rest : STRING]
Messages == [role : STRING, text : Texts]
Requests == [path : STRING, model : STRING, messages : Seq(Messages), prompt : Texts]

Extended(b, replies) == Request(b.path, b.model, b.messages \o replies, b.prompt)

ASSUME RequestsAssumption ==
  /\ Openings \subseteq Requests /\ Replies \subseteq Messages /\ MaxMessages \in Nat

ASSUME IdsAssumption ==
  \A b \in Openings : \A n \in (IF b.messages = NoMessages THEN {0} ELSE 0..MaxMessages) :
    \A replies \in [1..n -> Replies] : IdentityOf(Extended(b, replies)) \in Ids \cup {NoIdentity}
-----------------------------------------------------------------------------
ConversationsInit == Init /\ body \in Openings

NewConversation == body' \in Openings /\ UNCHANGED pins

(* "messages arrays only append in a conversation" *)
NextTurn == /\ body.messages # NoMessages
            /\ Len(body.messages) < MaxMessages
            /\ \E m \in Replies : body' = [body EXCEPT !.messages = Append(@, m)]
            /\ UNCHANGED pins

(* The pool's use of the map; without an identity there is none. *)
Route == /\ IdentityOf(body) # NoIdentity
         /\ Operation(IdentityOf(body))
         /\ UNCHANGED body

ConversationsNext == NewConversation \/ NextTurn \/ Route

ConversationsSpec == ConversationsInit /\ [][ConversationsNext]_vars
-----------------------------------------------------------------------------
(***************************************************************************)
(* "that prefix is byte-identical across turns": once a conversation has   *)
(* an identity, every later turn has the same, whatever is appended, so    *)
(* that its pin is found again.                                            *)
(***************************************************************************)
Continues(next, b) == /\ next.path = b.path /\ next.model = b.model /\ next.prompt = b.prompt
                      /\ IsStrictPrefix(b.messages, next.messages)

IdentityStable ==
  [][Continues(body', body) /\ IdentityOf(body) # NoIdentity
       => IdentityOf(body') = IdentityOf(body)]_vars

(***************************************************************************)
(* "a pure system prompt is a shared prefix, not a conversation identity": *)
(* requests whose users first said something else within the hashed head,  *)
(* or that differ in model or API, are different conversations, although   *)
(* they may share every system message.                                    *)
(***************************************************************************)
FirstSpoken(messages) == {i \in Cuts(messages) : \A j \in 1..(i - 1) : messages[j].role = "system"}

FirstSaid(b) == IF b.path \in PromptPaths THEN {b.prompt.head}
                ELSE {b.messages[i].text.head : i \in FirstSpoken(b.messages)}

ConversationsApart ==
  [][LET old == IdentityOf(body)
         new == IdentityOf(body') IN
     old = new /\ old # NoIdentity =>
       /\ FirstSaid(body') = FirstSaid(body) /\ body'.model = body.model
       /\ FamilyOf(body'.path) = FamilyOf(body.path)]_vars
=============================================================================
