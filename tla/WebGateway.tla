---------------------------- MODULE WebGateway ----------------------------
(***************************************************************************)
(* bin/lib/tmux-web-gateway.js: the HTTP server in front of ttyd.  It      *)
(* takes uploads into a directory, and forwards everything else - plain    *)
(* requests and upgraded connections - to the terminal's own server.       *)
(*                                                                         *)
(* A step is one callback of Node's loop.  All uploads here ask for one    *)
(* name in one directory, the case in which they meet; a chunk is a unit   *)
(* of the size limit.                                                      *)
(***************************************************************************)
EXTENDS Naturals, FiniteSets

CONSTANTS
  Upload,         \* the upload requests
  Tunnel,         \* the requests that are forwarded
  MaxCandidates,  \* the names that are tried: 1000
  MaxBytes,       \* WEB_TERMINAL_UPLOAD_MAX_MB
  Other, None     \* the owner of a file that is no upload's; nobody

ASSUME GatewayAssumption ==
  /\ MaxCandidates \in Nat /\ MaxBytes \in Nat
  /\ Other \notin Upload /\ None \notin Upload /\ Other # None
  /\ None \notin Nat /\ None \notin {"ok", "error"}

VARIABLES
  files,     \* the owner of every candidate name in the directory
  upload,    \* the handlers of the uploads
  tunnel,    \* the forwarded requests
  server,    \* "listening", or "exited"
  moved,     \* uploads whose file others have removed
  stuck      \* uploads whose file could not be unlinked

vars == <<files, upload, tunnel, server, moved, stuck>>

Candidate == 0..(MaxCandidates - 1)   \* 0 is the name, n is stem-n
Size == 0..MaxBytes

Init ==
  /\ files = [c \in Candidate |-> None]
  /\ upload \in [Upload -> [phase: {"new"}, bytes: {0}, written: {0},
                            ended: {FALSE}, answer: {None}, file: {None}]]
  /\ tunnel = [t \in Tunnel |-> [phase |-> "new", client |-> "open", backend |-> "none"]]
  /\ server = "listening"
  /\ moved = {}
  /\ stuck = {}

---------------------------------------------------------------------------
(* handleUpload                                                            *)
Refuse(u) ==
  /\ upload' = [upload EXCEPT ![u].phase = "refused", ![u].answer = "error"]
  /\ UNCHANGED files

Free == {c \in Candidate: files[c] = None}
IsFirst(c) == c \in Free /\ \A d \in Free: c <= d

(* A mutant: the file is opened without "wx".                              *)
CreateFileAnyway(u) ==
  /\ files' = [files EXCEPT ![0] = u]
  /\ upload' = [upload EXCEPT ![u].phase = "open", ![u].file = 0]

CreateFile(u) == \E c \in Free:
  /\ IsFirst(c)
  /\ files' = [files EXCEPT ![c] = u]
  /\ upload' = [upload EXCEPT ![u].phase = "open", ![u].file = c]

(* A request is refused without the credential, with another method, when  *)
(* it declares too large a body, and when no file can be created.          *)
Request(u) ==
  /\ server = "listening" /\ upload[u].phase = "new"
  /\ \/ Refuse(u)
     \/ CreateFile(u)
  /\ UNCHANGED <<tunnel, server, moved, stuck>>

(* fail: the file is unlinked by its name, which may not work; the handler *)
(* does nothing more.                                                      *)
(* A mutant: an empty file is not unlinked.                                *)
FailKeepsFile(u, handler) ==
  /\ upload' = [upload EXCEPT ![u] =
       [handler EXCEPT !.phase = "failed", !.answer = IF @ = None THEN "error" ELSE @]]
  /\ files' = IF handler.bytes = 0 THEN files
              ELSE [files EXCEPT ![handler.file] = None]
  /\ UNCHANGED stuck

Fail(u, handler) ==
  /\ upload' = [upload EXCEPT ![u] =
       [handler EXCEPT !.phase = "failed", !.answer = IF @ = None THEN "error" ELSE @]]
  /\ \/ files' = [files EXCEPT ![handler.file] = None] /\ UNCHANGED stuck
     \/ UNCHANGED files /\ stuck' = stuck \cup {u}

Up(u) == server = "listening" /\ upload[u].phase = "open"

(* A chunk of the body arrives and is piped to the stream, unless there    *)
(* have been too many.                                                     *)
Data(u) ==
  /\ Up(u) /\ ~upload[u].ended
  /\ IF upload[u].bytes + 1 > MaxBytes
     THEN Fail(u, upload[u])
     ELSE /\ upload' = [upload EXCEPT ![u].bytes = @ + 1]
          /\ UNCHANGED <<files, stuck>>
  /\ UNCHANGED <<tunnel, server, moved>>

(* The disk takes a chunk of the stream, or fails.                         *)
Write(u) ==
  /\ Up(u) /\ upload[u].written < upload[u].bytes
  /\ \/ /\ upload' = [upload EXCEPT ![u].written = @ + 1]
        /\ UNCHANGED <<files, stuck>>
     \/ Fail(u, upload[u])
  /\ UNCHANGED <<tunnel, server, moved>>

(* The request has been read to its end, and pipe ends the stream.         *)
End(u) ==
  /\ Up(u) /\ ~upload[u].ended
  /\ upload' = [upload EXCEPT ![u].ended = TRUE]
  /\ UNCHANGED <<files, tunnel, server, moved, stuck>>

(* A mutant: the upload is answered when the request ends.                 *)
FinishEarly(u) ==
  /\ Up(u) /\ upload[u].ended
  /\ upload' = [upload EXCEPT ![u].phase = "finished", ![u].answer = "ok"]
  /\ UNCHANGED <<files, tunnel, server, moved, stuck>>

Finish(u) ==
  /\ Up(u) /\ upload[u].ended /\ upload[u].written = upload[u].bytes
  /\ upload' = [upload EXCEPT ![u].phase = "finished", ![u].answer = "ok"]
  /\ UNCHANGED <<files, tunnel, server, moved, stuck>>

(* The file is closed (autoClose); an error of that comes after the answer.*)
CloseFile(u) ==
  /\ server = "listening" /\ upload[u].phase = "finished"
  /\ \/ upload' = [upload EXCEPT ![u].phase = "closed"] /\ UNCHANGED <<files, stuck>>
     \/ Fail(u, upload[u])
  /\ UNCHANGED <<tunnel, server, moved>>

(* The connection goes before the request was read to its end.  Later it   *)
(* makes no difference to the handler.                                     *)
Disconnect(u) ==
  /\ Up(u) /\ ~upload[u].ended
  /\ Fail(u, upload[u])
  /\ UNCHANGED <<tunnel, server, moved>>

---------------------------------------------------------------------------
(* Forwarded requests: a client's end and the end towards ttyd.            *)
Set(t, client, backend) ==
  /\ tunnel' = [tunnel EXCEPT ![t].client = client, ![t].backend = backend]
  /\ UNCHANGED <<files, upload, server, moved, stuck>>

Forward(t) ==
  /\ server = "listening" /\ tunnel[t].phase = "new"
  /\ \E kind \in {"proxied", "upgraded"}:
       tunnel' = [tunnel EXCEPT ![t].phase = kind, ![t].backend = "connecting"]
  /\ UNCHANGED <<files, upload, server, moved, stuck>>

(* ttyd takes the connection, or answers the request.                      *)
BackendAnswers(t) ==
  /\ server = "listening" /\ tunnel[t].backend = "connecting"
  /\ Set(t, tunnel[t].client, "open")

(* An error of the connection to ttyd: 502 ends a plain request, an        *)
(* upgraded one is torn down.  Both ends go at once.                       *)
BackendRefuses(t) ==
  /\ server = "listening" /\ tunnel[t].backend = "connecting"
  /\ Set(t, "closed", "closed")

(* An end goes; the other hears of it in a callback of its own.            *)
ClientGoes(t) ==
  /\ server = "listening" /\ tunnel[t].phase # "new" /\ tunnel[t].client = "open"
  /\ Set(t, "closed", tunnel[t].backend)
BackendGoes(t) ==
  /\ server = "listening" /\ tunnel[t].backend = "open"
  /\ Set(t, tunnel[t].client, "closed")

(* A plain request's response ends: so does the answer to the client.      *)
ResponseEnds(t) ==
  /\ server = "listening" /\ tunnel[t].phase = "proxied" /\ tunnel[t].backend = "open"
  /\ Set(t, "closed", "closed")

(* A mutant: only an open connection to ttyd is closed.                    *)
ClientClosedOpenOnly(t) ==
  /\ server = "listening" /\ tunnel[t].client = "closed" /\ tunnel[t].backend = "open"
  /\ Set(t, "closed", "closed")

ClientClosed(t) ==
  /\ server = "listening" /\ tunnel[t].client = "closed" /\ tunnel[t].backend # "closed"
  /\ Set(t, "closed", "closed")

(* ttyd's end of a plain request is its response: nothing listens for its  *)
(* going away in the middle, and the response to the client stays open.    *)
BackendClosed(t) ==
  /\ server = "listening" /\ tunnel[t].phase = "upgraded"
  /\ tunnel[t].backend = "closed" /\ tunnel[t].client = "open"
  /\ Set(t, "closed", "closed")

---------------------------------------------------------------------------
(* A signal, which leaves requests under way two seconds, or a crash.      *)
Exit ==
  /\ server = "listening"
  /\ server' = "exited"
  /\ UNCHANGED <<files, upload, tunnel, moved, stuck>>

(* Other programs use the directory.                                       *)
OthersCreate(c) ==
  /\ server = "listening" /\ files[c] = None
  /\ files' = [files EXCEPT ![c] = Other]
  /\ UNCHANGED <<upload, tunnel, server, moved, stuck>>

OthersRemove(c) ==
  /\ server = "listening" /\ files[c] # None
  /\ files' = [files EXCEPT ![c] = None]
  /\ moved' = moved \cup ({files[c]} \cap Upload)
  /\ UNCHANGED <<upload, tunnel, server, stuck>>

Callback(u) == Data(u) \/ Write(u) \/ End(u) \/ Finish(u) \/ CloseFile(u) \/ Disconnect(u)

Next ==
  \/ \E u \in Upload: Request(u) \/ Callback(u)
  \/ \E t \in Tunnel: \/ Forward(t) \/ BackendAnswers(t) \/ BackendRefuses(t)
                      \/ ClientGoes(t) \/ BackendGoes(t) \/ ResponseEnds(t)
                      \/ ClientClosed(t) \/ BackendClosed(t)
  \/ Exit
  \/ \E c \in Candidate: OthersCreate(c) \/ OthersRemove(c)

(* Node runs the callbacks it has to run, the disk settles every write,    *)
(* and a client goes on sending or goes away: the server sets no timeout.  *)
Fairness ==
  /\ \A u \in Upload: /\ WF_vars(Write(u)) /\ WF_vars(Finish(u)) /\ WF_vars(CloseFile(u))
                      /\ WF_vars(Data(u) \/ End(u) \/ Disconnect(u))
  /\ \A t \in Tunnel: WF_vars(ClientClosed(t)) /\ WF_vars(BackendClosed(t))

Spec == Init /\ [][Next]_vars /\ Fairness

---------------------------------------------------------------------------
Handler ==
  [phase: {"new", "refused", "open", "finished", "closed", "failed"},
   bytes: Size, written: Size, ended: BOOLEAN, answer: {None, "ok", "error"},
   file: Candidate \cup {None}]

TypeOK ==
  /\ files \in [Candidate -> Upload \cup {Other, None}]
  /\ upload \in [Upload -> Handler]
  /\ tunnel \in [Tunnel -> [phase: {"new", "proxied", "upgraded"},
                            client: {"open", "closed"},
                            backend: {"none", "connecting", "open", "closed"}]]
  /\ server \in {"listening", "exited"}
  /\ moved \subseteq Upload /\ stuck \subseteq Upload

(* An upload that was answered with 200 is on the disk, whole and under    *)
(* the name it was told, whatever other uploads do that want that name,    *)
(* fail or are cut off; unless closing the file fails after the answer, or *)
(* others removed it - or a file that an upload under way went on to       *)
(* unlink by its name.                                                     *)
StoredAsAnswered ==
  \A u \in Upload:
    /\ upload[u].phase \in {"finished", "closed"} /\ u \notin moved
    /\ \A v \in moved: upload[v].file # upload[u].file
    => /\ files[upload[u].file] = u
       /\ upload[u].ended
       /\ upload[u].written = upload[u].bytes

(* An upload that failed, was refused or was cut off leaves no file,       *)
(* unless the disk does not let it be removed.                             *)
NothingLeftBehind ==
  \A u \in Upload, c \in Candidate:
    files[c] = u => upload[u].phase \in {"open", "finished", "closed"} \/ u \in stuck

(* While the server lives nothing lingers: an upload is answered in the    *)
(* end, and no connection to ttyd outlives the client's, nor the other way *)
(* round for an upgraded one.                                              *)
NothingLingers ==
  [](server = "listening") =>
    /\ \A u \in Upload: (upload[u].phase = "open") ~> (upload[u].answer # None)
    /\ \A t \in Tunnel:
         /\ (tunnel[t].client = "closed") ~> (tunnel[t].backend = "closed")
         /\ (tunnel[t].phase = "upgraded" /\ tunnel[t].backend = "closed")
              ~> (tunnel[t].client = "closed")
===========================================================================
