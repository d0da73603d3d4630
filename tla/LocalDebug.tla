----------------------------- MODULE LocalDebug -----------------------------
(***************************************************************************)
(* fastgpt-plugin debug <entry> --run: the plugin is imported into the     *)
(* process of the command (cli/src/debug/session.ts), where its factory    *)
(* finds a channel by a global variable and RUNTIME_MODE (sdk/factory),    *)
(* and one of its tools runs against a virtual host (runtime.ts), which    *)
(* saves what the tool uploads in a directory.  The command shows what the *)
(* tool sent, and exits with an error if it sent one (commands/debug.ts).  *)
(*                                                                         *)
(* Abstracted: schemas, manifest texts, the contents of chunks and values. *)
(***************************************************************************)
EXTENDS Naturals, Sequences

CONSTANTS
  MaxSent,    \* bound: messages the tool sends before the last
  MaxChunks,  \* bound: chunks of the file the tool uploads
  None

VARIABLES
  at,        \* the command: the step it awaits, or how it ended
  current,   \* the global variable holds the runtime, and RUNTIME_MODE is 'dev'
  notice,    \* the factory's ready: "none", "scheduled", "sent"
  tool,      \* the handler of the tool: "idle", "works", "uploads", "done"
  sent,      \* what it has sent on its output
  ended,     \* the output has ended
  taken,     \* how much of it the command has consumed
  result,    \* the last response and the last error among that
  upload,    \* the upload of the tool: what it sends, and what it was told
  saved      \* chunks in the file in the upload directory; None: no file

loading == <<current, notice>>
running == <<tool, sent, ended, taken, result>>
uploading == <<upload, saved>>
vars == <<at, loading, running, uploading>>

Ends == {"shown", "error shown", "refused", "threw"}
NoResult == [response |-> 0, error |-> 0]
NoUpload == [chunks |-> 0, breaks |-> FALSE, told |-> "nothing"]

Init ==
  /\ at = "load" /\ current = FALSE /\ notice = "none"
  /\ tool = "idle" /\ sent = <<>> /\ ended = FALSE /\ taken = 0 /\ result = NoResult
  /\ upload = NoUpload /\ saved = None

Goes(to) == at' = to /\ UNCHANGED <<notice, running, uploading>>

-----------------------------------------------------------------------------
(* loadDebugSession                                                        *)

(* The entry or its index.ts may be missing.                               *)
Load ==
  /\ at = "load"
  /\ \/ Goes("refused") /\ UNCHANGED current
     \/ Goes("import") /\ current' = TRUE

(* finally: the global variable and the mode are restored.                 *)
Restore == current' = FALSE

(* The module throws, or exports something else.                           *)
ImportFails ==
  /\ at = "import" /\ Goes("refused") /\ Restore

(* The constructor takes the channel, sets the handler, and schedules the  *)
(* notice (setImmediate).                                                  *)
Import ==
  /\ at = "import" /\ current
  /\ at' = "ready" /\ notice' = "scheduled"
  /\ UNCHANGED <<current, running, uploading>>

Notify ==
  /\ notice = "scheduled" /\ notice' = "sent"
  /\ UNCHANGED <<at, current, running, uploading>>

(* waitUntilReady, createDebugSnapshot; the manifest or a child's handler  *)
(* may be missing.                                                         *)
Ready ==
  /\ at = "ready" /\ notice = "sent"
  /\ Goes("loaded") \/ Goes("refused")
  /\ Restore

-----------------------------------------------------------------------------
(* run: the JSON options, and the tool to run, may be wrong.               *)
Options ==
  /\ at = "loaded" /\ UNCHANGED current
  /\ Goes("run") \/ Goes("refused")

(* invokePlugin: the handler of the factory answers with its output, and   *)
(* starts the tool; without one, the output holds one error.               *)
Run ==
  /\ at = "run" /\ at' = "consume"
  /\ \/ tool' = "works" /\ UNCHANGED <<sent, ended>>
     \/ tool' = "done" /\ sent' = <<"error">> /\ ended' = TRUE
  /\ UNCHANGED <<loading, taken, result, uploading>>

(* streamResponse                                                          *)
Stream ==
  /\ tool = "works" /\ Len(sent) < MaxSent
  /\ sent' = Append(sent, "stream")
  /\ UNCHANGED <<at, loading, tool, ended, taken, result, uploading>>

(* The handler returns or throws; a value that is not an object does not   *)
(* fit the schema of messages.                                             *)
Finish ==
  /\ tool = "works" /\ tool' = "done"
  /\ \E last \in {"response", "bad", "error"} : sent' = Append(sent, last)
  /\ ended' = TRUE
  /\ UNCHANGED <<at, loading, taken, result, uploading>>

(* InvokeClient.uploadFile; other methods fail at the virtual host.        *)
BeginUpload ==
  /\ tool = "works" /\ upload.told = "nothing" /\ tool' = "uploads"
  /\ upload' \in [chunks : 0..MaxChunks, breaks : BOOLEAN, told : {"nothing"}]
  /\ UNCHANGED <<at, loading, sent, ended, taken, result, saved>>
OtherMethod ==
  /\ tool = "works" /\ upload.told = "nothing"
  /\ upload' = [upload EXCEPT !.told = "failure"]
  /\ UNCHANGED <<at, loading, running, saved>>

(* The host reads the stream to its end and writes the file; a stream that *)
(* breaks is the failure of the call.                                      *)
Upload ==
  /\ tool = "uploads" /\ tool' = "works"
  /\ saved' = IF upload.breaks THEN None ELSE upload.chunks
  /\ upload' = [upload EXCEPT !.told = IF upload.breaks THEN "failure" ELSE "url"]
  /\ UNCHANGED <<at, loading, sent, ended, taken, result>>

(* consume: a message that does not fit throws; the tool works on.         *)
Consume ==
  /\ at = "consume" /\ taken < Len(sent)
  /\ LET message == sent[taken + 1]
     IN /\ at' = IF message = "bad" THEN "threw" ELSE at
        /\ taken' = IF message = "bad" THEN taken ELSE taken + 1
        /\ result' = [response |-> IF message = "response" THEN taken + 1 ELSE result.response,
                      error |-> IF message = "error" THEN taken + 1 ELSE result.error]
  /\ UNCHANGED <<loading, tool, sent, ended, uploading>>

(* The output has ended: the messages, the response and the error are      *)
(* shown; process.exit(1) after an error.                                  *)
Show ==
  /\ at = "consume" /\ ended /\ taken = Len(sent)
  /\ Goes(IF result.error > 0 THEN "error shown" ELSE "shown")
  /\ UNCHANGED current

Command == Load \/ ImportFails \/ Import \/ Ready \/ Options \/ Run \/ Consume \/ Show
Next == Command \/ Notify \/ Stream \/ Finish \/ BeginUpload \/ OtherMethod \/ Upload

Spec == Init /\ [][Next]_vars
FairSpec == Spec /\ WF_vars(Command) /\ WF_vars(Notify)

-----------------------------------------------------------------------------
(* Properties                                                              *)

(* Every variable holds what its declaration says.                         *)
TypeOK ==
  /\ at \in Ends \cup {"load", "import", "ready", "loaded", "run", "consume"}
  /\ current \in BOOLEAN /\ notice \in {"none", "scheduled", "sent"}
  /\ tool \in {"idle", "works", "uploads", "done"} /\ ended \in BOOLEAN
  /\ taken \in 0..Len(sent) /\ saved \in 0..MaxChunks \cup {None}

(* A run that ends has shown all the tool sent, and its outcome: as an     *)
(* error exactly when the tool failed.  A tool that was told the URL of    *)
(* its upload finds all of it there.  Whatever way loading ends, the next  *)
(* import in this process does not find the runtime of this one.           *)
AnswersAreTrue ==
  /\ at \in {"shown", "error shown"} =>
       /\ taken = Len(sent) /\ tool = "done"
       /\ (at = "error shown") = (sent[Len(sent)] = "error")
       /\ (at = "shown") = (result.response = Len(sent))
  /\ at = "threw" => sent[Len(sent)] = "bad"
  /\ upload.told = "url" => ~upload.breaks /\ saved = upload.chunks
  /\ at \notin {"import", "ready"} => ~current

(* The command ends when the tool does.                                    *)
CallsEnd == (tool \in {"idle", "done"}) ~> (at \in Ends \/ tool \in {"works", "uploads"})
=============================================================================
