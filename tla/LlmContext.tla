------------------------------ MODULE LlmContext ------------------------------
(***************************************************************************)
(* What cafe-llm sends to a backend (context.rs): the messages built from  *)
(* the history, cut to the budgets of the session and, if so configured,   *)
(* with a summary of what was cut; and the configuration that is merged    *)
(* from the config chunks.  A text is the sequence of the positions of the *)
(* chunks it is made of.                                                   *)
(***************************************************************************)
EXTENDS Integers, Sequences, SequencesExt, FiniteSetsExt, Selections

CONSTANTS
    MaxHistory   \* bound on the length of the history

ASSUME ContextAssumption == MaxHistory \in Nat

VARIABLES
    history,    \* the text chunks of the session
    settings,   \* the config chunks of the session, one key of each
    budget,     \* compaction mode, and the budgets of messages and characters, 0 if unset
    messages,   \* the messages, as far as they are made
    dropped,    \* those that were cut
    stage       \* "history", "built", "compacted", "request"

contextVars == <<history, settings, budget, messages, dropped, stage>>

System == [role |-> "system", text |-> <<>>]

\* A chunk without a role of the conversation, or not trusted, is passed over.
Conversation(i) == history[i].role \in {"user", "assistant"} /\ history[i].trusted

\* Mutant of Coalesced: each chunk is a message of its own.
OneEach(list, role, i) == Append(list, [role |-> role, text |-> <<i>>])

\* A chunk with the role of the message before it goes into that message.
Coalesced(list, role, i) ==
    IF list # <<>> /\ Last(list).role = role
    THEN [list EXCEPT ![Len(list)].text = Append(@, i)]
    ELSE Append(list, [role |-> role, text |-> <<i>>])

Built(prompt) ==
    LET list[n \in 0..Len(history)] ==
            IF n = 0 THEN IF prompt THEN <<System>> ELSE <<>>
            ELSE IF Conversation(n) THEN Coalesced(list[n - 1], history[n].role, n)
            ELSE list[n - 1]
    IN  list[Len(history)]

\* The texts of messages, one after the other.
Flat(list) ==
    LET text[n \in 0..Len(list)] == IF n = 0 THEN <<>> ELSE text[n - 1] \o list[n].text
    IN  text[Len(list)]

\* The length of the content: the chunks, and a newline between them.
Size(message) == 2 * Len(message.text) - 1
Sizes(list) == FoldLeft(LAMBDA sum, m : sum + Size(m), 0, list)

Fits(list) ==
    /\ budget.messages >= 1 => Len(list) <= budget.messages
    /\ budget.chars >= 1 => Sizes(list) <= budget.chars

HasSystem(list) == list # <<>> /\ list[1].role = "system"
Head1(list) == IF HasSystem(list) THEN <<list[1]>> ELSE <<>>
Body(list) == IF HasSystem(list) THEN Tail(list) ELSE list

Compacts == budget.mode \in {"truncate", "summarize"} /\ (budget.messages >= 1 \/ budget.chars >= 1)

\* How many of the oldest messages are cut; the newest never is.
Start(rest) ==
    Min({s \in 0..Len(rest) : Len(rest) - s <= 1 \/ Fits(SubSeq(rest, s + 1, Len(rest)))})

-----------------------------------------------------------------------------

BuildMessages ==
    /\ stage = "history"
    /\ \E prompt \in BOOLEAN : messages' = Built(prompt)
    /\ stage' = "built"
    /\ UNCHANGED <<history, settings, budget, dropped>>

ApplyCompaction ==
    /\ stage = "built"
    /\ LET rest == Body(messages)
           start == IF Compacts THEN Start(rest) ELSE 0
       IN /\ messages' = Head1(messages) \o SubSeq(rest, start + 1, Len(rest))
          /\ dropped' = SubSeq(rest, 1, start)
    /\ stage' = "compacted"
    /\ UNCHANGED <<history, settings, budget>>

\* The backend is asked for a summary; without one, or if that fails, nothing is inserted.
Summarize ==
    /\ stage = "compacted"
    /\ \/ UNCHANGED messages
       \/ /\ budget.mode = "summarize" /\ dropped # <<>>
          /\ messages' = Head1(messages) \o
                <<[role |-> "system", text |-> Flat(dropped)]>> \o Body(messages)
    /\ stage' = "request"
    /\ UNCHANGED <<history, settings, budget, dropped>>

-----------------------------------------------------------------------------
(* extract_config, for one of its keys: the namespaced and the legacy form *)

\* A namespaced key sets the value, to nothing if it is of the wrong type; a legacy key
\* only while there is none.
Merged(value, chunk) ==
    LET named == IF chunk.key # "absent" THEN chunk.key ELSE value
    IN IF named = "none" /\ chunk.legacy # "absent" THEN chunk.legacy ELSE named

Config ==
    LET value[n \in 0..Len(settings)] == IF n = 0 THEN "none" ELSE Merged(value[n - 1], settings[n])
    IN  value[Len(settings)]

-----------------------------------------------------------------------------

Texts == [role : {"user", "assistant", "tool"}, trusted : {TRUE}]
            \cup [role : {"user"}, trusted : {FALSE}]
Values == {"absent", "none", "a", "b"}
Budgets == [mode : {"none", "truncate", "summarize"}, messages : 0..2, chars : {0, 1, 3}]
Unlimited == [mode |-> "none", messages |-> 0, chars |-> 0]

ContextInit ==
    /\ stage = "history" /\ messages = <<>> /\ dropped = <<>>
    /\ \/ history \in SeqOf(Texts, MaxHistory) /\ settings = <<>> /\ budget \in Budgets
       \/ /\ history = <<>> /\ budget = Unlimited
          /\ settings \in SeqOf([key : Values, legacy : Values], 3)

ContextNext == BuildMessages \/ ApplyCompaction \/ Summarize

ContextSpec == ContextInit /\ [][ContextNext]_contextVars

-----------------------------------------------------------------------------

ContextTypeOK ==
    /\ stage \in {"history", "built", "compacted", "request"}
    /\ \A k \in DOMAIN messages : messages[k].role \in {"system", "user", "assistant"}
    /\ Config \in {"none", "a", "b"}

Eligible == Selected([i \in 1..Len(history) |-> i], {i \in 1..Len(history) : Conversation(i)})

\* Every trusted chunk of the conversation is in the request or in what was cut, in order
\* and once; roles alternate, as backends demand; and no more was cut than the budgets
\* ask for, though the newest message is always there.
MessagesAreFaithful ==
    stage \in {"compacted", "request"} =>
        LET kept == Selected(messages, {k \in 1..Len(messages) : messages[k].role # "system"})
        IN /\ Flat(dropped \o kept) = Eligible
           /\ \A k \in 1..Len(kept) - 1 : kept[k].role # kept[k + 1].role
           /\ Eligible # <<>> => kept # <<>>
           /\ Compacts => Fits(kept) \/ Len(kept) <= 1
           /\ dropped # <<>> => Compacts /\ ~Fits(<<Last(dropped)>> \o kept)

\* The last namespaced key decides; if it holds nothing, or there is none, a legacy key
\* from there on, if there is one.
ConfigIsMerged ==
    LET named == {k \in DOMAIN settings : settings[k].key # "absent"}
        from == IF named = {} THEN 0 ELSE Max(named)
        legacy == {settings[k].legacy : k \in {j \in DOMAIN settings : j >= from}} \ {"absent", "none"}
    IN IF from # 0 /\ settings[from].key # "none" THEN Config = settings[from].key
       ELSE Config \in legacy \/ (legacy = {} /\ Config = "none")

\* What a backend gets is what the session says: build_messages and apply_compaction keep
\* the conversation, extract_config its settings.
RequestIsFaithful == MessagesAreFaithful /\ ConfigIsMerged

\* extract_config: "Later chunks win per key".  (Of two legacy keys the first one does.)
LaterKeyWins ==
    stage = "request" /\ (\A k \in DOMAIN settings : settings[k].key = "absent") =>
        \A k \in DOMAIN settings :
            settings[k].legacy \in {"a", "b"} /\ (\A j \in DOMAIN settings : j > k => settings[j].legacy = "absent") =>
                Config = settings[k].legacy

=============================================================================
