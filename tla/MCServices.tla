------------------------------ MODULE MCServices ------------------------------
(***************************************************************************)
(* Instances for TLC of the modules that do not share a session with       *)
(* another one and of which only safety is checked: a behaviour is one of  *)
(* exactly one of them, chosen in the initial state, and the state of the  *)
(* others rests.                                                           *)
(***************************************************************************)
EXTENDS BinaryUpload, WireReaders, SdkClient, LlmContext, AgentFiles, KnowledgeBase,
        EpubNarrator, JsCalls, TuiClient

\* What is indexed: texts of several chunks, one too long for a chunk, one with an overlap
\* that is not below the size; and a second document.
MCUploads ==
    [doc : {1}, job : {[text |-> <<1, 1>>, wide |-> {}, size |-> 4, overlap |-> 1],
                       [text |-> <<5, 0, 1>>, wide |-> {}, size |-> 3, overlap |-> 1],
                       [text |-> <<3, 3>>, wide |-> {<<1, 3>>}, size |-> 4, overlap |-> 2],
                       [text |-> <<3>>, wide |-> {<<1, 2>>}, size |-> 2, overlap |-> 1],
                       [text |-> <<3>>, wide |-> {}, size |-> 2, overlap |-> 2]}]
        \cup [doc : {2}, job : {[text |-> <<1>>, wide |-> {}, size |-> 4, overlap |-> 1]}]

VARIABLE part   \* the module whose behaviour this is

AllParts == {"upload", "wire", "sdk", "context", "files", "kb", "epub", "calls", "tui"}

\* The one state of a module that rests: an initial state without anything to do.
Rests(p) ==
    CASE p = "upload"  -> transient = FALSE
      [] p = "wire"    -> reader = "bus" /\ frames = <<>>
      [] p = "sdk"     -> binary = FALSE
      [] p = "context" -> history = <<>> /\ settings = <<>> /\ budget = Unlimited
      [] p = "calls"   -> lasting = FALSE
      [] p = "files"   -> absolute = {} /\ files = [path \in Path |-> NoFile]
      [] OTHER         -> TRUE

ServicesInit ==
    /\ part \in AllParts
    /\ \A p \in AllParts \ {part} : Rests(p)
    /\ UpInit /\ WireInit({"openai", "opencode", "ollama", "sse", "bus"})
    /\ SdkInit /\ ContextInit /\ FilesInit /\ KbInit /\ EpInit /\ JsCallsInit /\ TuiInit

ServicesNext ==
    \/ part = "upload" /\ UpNext
       /\ UNCHANGED <<part, wireVars, sdkVars, contextVars, filesVars, kbVars,
                      epVars, jsCallVars, tuiVars>>
    \/ part = "wire" /\ WireNext
       /\ UNCHANGED <<part, upVars, sdkVars, contextVars, filesVars, kbVars,
                      epVars, jsCallVars, tuiVars>>
    \/ part = "sdk" /\ SdkNext
       /\ UNCHANGED <<part, upVars, wireVars, contextVars, filesVars, kbVars,
                      epVars, jsCallVars, tuiVars>>
    \/ part = "context" /\ ContextNext
       /\ UNCHANGED <<part, upVars, wireVars, sdkVars, filesVars, kbVars,
                      epVars, jsCallVars, tuiVars>>
    \/ part = "files" /\ FilesNext
       /\ UNCHANGED <<part, upVars, wireVars, sdkVars, contextVars, kbVars,
                      epVars, jsCallVars, tuiVars>>
    \/ part = "kb" /\ KbNext
       /\ UNCHANGED <<part, upVars, wireVars, sdkVars, contextVars, filesVars,
                      epVars, jsCallVars, tuiVars>>
    \/ part = "epub" /\ EpNext
       /\ UNCHANGED <<part, upVars, wireVars, sdkVars, contextVars, filesVars,
                      kbVars, jsCallVars, tuiVars>>
    \/ part = "calls" /\ JsCallsNext
       /\ UNCHANGED <<part, upVars, wireVars, sdkVars, contextVars, filesVars,
                      kbVars, epVars, tuiVars>>
    \/ part = "tui" /\ TuiNext
       /\ UNCHANGED <<part, upVars, wireVars, sdkVars, contextVars, filesVars,
                      kbVars, epVars, jsCallVars>>

ServicesVars == <<part, upVars, wireVars, sdkVars, contextVars, filesVars, kbVars,
                  epVars, jsCallVars, tuiVars>>

ServicesSpec == ServicesInit /\ [][ServicesNext]_ServicesVars

-----------------------------------------------------------------------------

\* The state of every part is of its type.
ServicesTypeOK ==
    /\ UpTypeOK /\ WireTypeOK /\ SdkTypeOK /\ ContextTypeOK /\ FilesTypeOK /\ KbTypeOK /\ EpTypeOK
    /\ JsCallsTypeOK /\ TuiTypeOK

=============================================================================
