-------------------------- MODULE MCConversations --------------------------
(***************************************************************************)
(* A TLC instance of Conversations: six identities in a map of three.      *)
(* Conversations share a system message, or the head of the first message  *)
(* but not its rest, or everything but the API; some start with a system   *)
(* message alone and get an identity later, or have none at all.           *)
(***************************************************************************)
EXTENDS Conversations

System == Message("system", Text("be brief", ""))
Hello  == Message("user", Text("hello", ""))
Long   == Message("user", Text("hello", "..."))
Bye    == Message("user", Text("bye", ""))
Answer == Message("assistant", Text("hello", ""))

SomeReplies == {Bye, Answer}

Chat(path, messages) == Request(path, "m", messages, NoText)

SomeOpenings ==
  {Chat("api/chat", <<Hello>>), Chat("api/chat", <<Long>>), Chat("v1/chat/completions", <<Hello>>),
   Chat("api/chat", <<System>>), Chat("api/chat", <<System, Hello>>),
   Chat("api/embed", <<Hello>>), Chat("api/chat", NoMessages),
   Request("api/chat", Absent, <<Hello>>, NoText),
   Request("api/generate", "m", NoMessages, Text("hello", "")),
   Request("api/generate", "m", NoMessages, NoText)}

SomeTurns(b) == UNION {[1..n -> SomeReplies] : n \in IF b.messages = NoMessages THEN {0} ELSE 0..3}

SomeIds == UNION {{IdentityOf(Extended(b, replies)) : replies \in SomeTurns(b)} : b \in SomeOpenings}

AllIds == {id \in SomeIds : id # NoIdentity}
=============================================================================
