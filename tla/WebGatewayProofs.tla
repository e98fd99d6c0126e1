------------------------ MODULE WebGatewayProofs ------------------------
(***************************************************************************)
(* Proofs about WebGateway, for any number of uploads, candidate names and *)
(* chunks: its type, that an upload that failed leaves no file, and that   *)
(* one that was answered is stored.                                        *)
(***************************************************************************)
EXTENDS WebGateway, TLAPS

\* An upload has at most the file it opened, and none before.
OwnFile ==
  /\ \A u \in Upload, c \in Candidate: files[c] = u => upload[u].file = c
  /\ \A u \in Upload: /\ u \in stuck => upload[u].phase = "failed"
                      /\ u \in moved => upload[u].phase # "new"
                      /\ upload[u].phase \in {"open", "finished", "closed"}
                           => upload[u].file \in Candidate

\* An upload that others left alone still has its file.
Untouched(u) == u \notin moved /\ \A v \in moved: upload[v].file # upload[u].file

FileHeld ==
  \A u \in Upload:
    upload[u].phase \in {"open", "finished", "closed"} /\ Untouched(u)
      => files[upload[u].file] = u

\* The answer comes when the whole request is on the disk.
WholeWhenAnswered ==
  \A u \in Upload:
    upload[u].phase \in {"finished", "closed"}
      => upload[u].ended /\ upload[u].written = upload[u].bytes

IInv == TypeOK /\ OwnFile /\ NothingLeftBehind /\ FileHeld /\ WholeWhenAnswered

-----------------------------------------------------------------------------
LEMMA InitInv == Init => IInv
<1> SUFFICES ASSUME Init PROVE IInv
  OBVIOUS
<1> USE GatewayAssumption
<1>1. \A u \in Upload: upload[u] \in Handler /\ upload[u].phase = "new"
  <2> DEFINE New == [phase: {"new"}, bytes: {0}, written: {0}, ended: {FALSE},
                     answer: {None}, file: {None}]
  <2>1. upload \in [Upload -> New]
    BY DEF Init
  <2>2. 0 \in Size
    BY DEF Size
  <2>3. New \subseteq Handler
    BY <2>2 DEF Handler
  <2>4. QED
    BY <2>1, <2>3
<1>2. TypeOK
  BY <1>1 DEF Init, TypeOK, Handler, Size
<1>3. OwnFile /\ NothingLeftBehind
  BY <1>1 DEF Init, OwnFile, NothingLeftBehind
<1>4. FileHeld /\ WholeWhenAnswered
  BY <1>1 DEF FileHeld, WholeWhenAnswered
<1>5. QED
  BY <1>2, <1>3, <1>4 DEF IInv

\* A step of one upload's handler that leaves the directory alone.
LEMMA HandlerMoves ==
  ASSUME IInv, NEW u \in Upload, NEW h \in Handler,
         upload' = [upload EXCEPT ![u] = h],
         UNCHANGED <<files, tunnel, server, moved, stuck>>,
         h.file = upload[u].file, upload[u].phase # "failed",
         \/ h.phase = "refused" /\ upload[u].phase = "new"
         \/ /\ upload[u].phase \in {"open", "finished", "closed"}
            /\ h.phase \in {"open", "finished", "closed"}
            /\ h.phase \in {"finished", "closed"} => h.ended /\ h.written = h.bytes
  PROVE  IInv'
<1> USE GatewayAssumption
<1>1. TypeOK /\ OwnFile /\ NothingLeftBehind /\ FileHeld /\ WholeWhenAnswered
  BY DEF IInv
<1>2. /\ upload \in [Upload -> Handler] /\ upload'[u] = h
      /\ \A v \in Upload: v # u => upload'[v] = upload[v]
      /\ \A v \in Upload: upload'[v].file = upload[v].file
  BY <1>1 DEF TypeOK
<1>3. TypeOK'
  BY <1>1, <1>2 DEF TypeOK
<1>4. OwnFile'
  BY <1>1, <1>2 DEF OwnFile
<1>5. NothingLeftBehind'
  BY <1>1, <1>2 DEF NothingLeftBehind, OwnFile
<1>6. FileHeld'
  <2>1. moved \subseteq Upload
    BY <1>1 DEF TypeOK
  <2>2. \A v \in Upload: Untouched(v)' => Untouched(v)
    BY <1>2, <2>1 DEF Untouched
  <2>3. QED
    BY <1>1, <1>2, <2>2 DEF FileHeld
<1>7. WholeWhenAnswered'
  BY <1>1, <1>2 DEF WholeWhenAnswered
<1>8. QED
  BY <1>3, <1>4, <1>5, <1>6, <1>7 DEF IInv

\* The handler fails and unlinks its file, or cannot.
LEMMA FailKeeps ==
  ASSUME IInv, NEW u \in Upload, upload[u].phase \in {"open", "finished"},
         Fail(u, upload[u]), UNCHANGED <<tunnel, server, moved>>
  PROVE  IInv'
<1> USE GatewayAssumption
<1>1. TypeOK /\ OwnFile /\ NothingLeftBehind /\ FileHeld /\ WholeWhenAnswered
  BY DEF IInv
<1> DEFINE f == upload[u].file
           h == [upload[u] EXCEPT !.phase = "failed",
                                  !.answer = IF @ = None THEN "error" ELSE @]
<1>2. /\ upload \in [Upload -> Handler] /\ upload[u] \in Handler /\ f \in Candidate
      /\ files \in [Candidate -> Upload \cup {Other, None}]
  BY <1>1 DEF TypeOK, OwnFile
<1>3. h \in Handler /\ h.phase = "failed" /\ h.file = f
  BY <1>2 DEF Handler
<1>4. upload' = [upload EXCEPT ![u] = h]
  BY DEF Fail
<1> HIDE DEF h
<1>5. /\ upload' \in [Upload -> Handler] /\ upload'[u].phase = "failed"
      /\ \A v \in Upload: v # u => upload'[v] = upload[v]
      /\ \A v \in Upload: upload'[v].file = upload[v].file
  BY <1>2, <1>3, <1>4
<1>6. \/ /\ files' = [files EXCEPT ![f] = None] /\ UNCHANGED stuck
      \/ UNCHANGED files /\ stuck' = stuck \cup {u}
  BY <1>3, <1>4 DEF Fail
<1>7. /\ files' \in [Candidate -> Upload \cup {Other, None}]
      /\ \A c \in Candidate: files'[c] = files[c] \/ (files'[c] = None /\ c = f)
      /\ u \in stuck' \/ files'[f] = None
      /\ stuck \subseteq stuck' /\ stuck' \subseteq stuck \cup {u}
  BY <1>2, <1>6
<1>8. TypeOK'
  BY <1>1, <1>5, <1>7 DEF TypeOK
<1>9. OwnFile'
  <2>1. \A v \in Upload, c \in Candidate: files'[c] = v => upload'[v].file = c
    BY <1>1, <1>5, <1>7 DEF OwnFile
  <2>2. QED
    BY <1>1, <1>5, <1>7, <2>1 DEF OwnFile
<1>10. NothingLeftBehind'
  <2> SUFFICES ASSUME NEW v \in Upload, NEW c \in Candidate, files'[c] = v
               PROVE  upload'[v].phase \in {"open", "finished", "closed"} \/ v \in stuck'
    BY DEF NothingLeftBehind
  <2>1. files[c] = v
    BY <1>7
  <2>2. CASE v = u
    BY <1>1, <1>7, <2>1, <2>2 DEF OwnFile
  <2>3. CASE v # u
    BY <1>1, <1>5, <1>7, <2>1, <2>3 DEF NothingLeftBehind
  <2>4. QED
    BY <2>2, <2>3
<1>11. FileHeld'
  <2> SUFFICES ASSUME NEW v \in Upload, Untouched(v)',
                      upload'[v].phase \in {"open", "finished", "closed"}
               PROVE  files'[upload'[v].file] = v
    BY DEF FileHeld
  <2>1. v # u /\ upload[v].phase \in {"open", "finished", "closed"}
    BY <1>5
  <2>2. moved \subseteq Upload /\ Untouched(v)
    BY <1>1, <1>5 DEF TypeOK, Untouched
  <2>3. files[upload[v].file] = v /\ upload[v].file \in Candidate
    BY <1>1, <2>1, <2>2 DEF FileHeld, OwnFile
  <2>4. upload[v].file # f
    <3>1. SUFFICES ASSUME upload[v].file = f PROVE FALSE
      OBVIOUS
    <3>2. Untouched(u)
      BY <2>2, <3>1 DEF Untouched
    <3>3. QED
      BY <1>1, <2>1, <2>3, <3>1, <3>2 DEF FileHeld
  <2>5. QED
    BY <1>5, <1>7, <2>3, <2>4
<1>12. WholeWhenAnswered'
  BY <1>1, <1>5 DEF WholeWhenAnswered
<1>13. QED
  BY <1>8, <1>9, <1>10, <1>11, <1>12 DEF IInv

\* A file is created under a name that nobody has.
LEMMA CreateKeeps ==
  ASSUME IInv, NEW u \in Upload, upload[u].phase = "new", CreateFile(u),
         UNCHANGED <<tunnel, server, moved, stuck>>
  PROVE  IInv'
<1> USE GatewayAssumption
<1>1. TypeOK /\ OwnFile /\ NothingLeftBehind /\ FileHeld /\ WholeWhenAnswered
  BY DEF IInv
<1>2. PICK c \in Candidate: /\ files[c] = None
                            /\ files' = [files EXCEPT ![c] = u]
                            /\ upload' = [upload EXCEPT ![u].phase = "open", ![u].file = c]
  BY DEF CreateFile, Free
<1> DEFINE h == [upload[u] EXCEPT !.phase = "open", !.file = c]
<1>3. upload \in [Upload -> Handler] /\ upload[u] \in Handler
  BY <1>1 DEF TypeOK
<1>4. h \in Handler /\ h.phase = "open" /\ h.file = c
  BY <1>3 DEF Handler
<1>5. upload' = [upload EXCEPT ![u] = h]
  BY <1>2, <1>3
<1> HIDE DEF h
<1>6. /\ upload' \in [Upload -> Handler] /\ upload'[u].phase = "open" /\ upload'[u].file = c
      /\ \A v \in Upload: v # u => upload'[v] = upload[v]
  BY <1>3, <1>4, <1>5
<1>7. /\ files' \in [Candidate -> Upload \cup {Other, None}] /\ files'[c] = u
      /\ \A d \in Candidate: d # c => files'[d] = files[d]
  BY <1>1, <1>2 DEF TypeOK
<1>8. u \notin moved /\ u \notin stuck /\ \A d \in Candidate: files[d] # u
  BY <1>1 DEF OwnFile, NothingLeftBehind
<1>9. TypeOK'
  BY <1>1, <1>6, <1>7 DEF TypeOK
<1>10. OwnFile'
  BY <1>1, <1>6, <1>7, <1>8 DEF OwnFile
<1>11. NothingLeftBehind'
  BY <1>1, <1>6, <1>7, <1>8 DEF NothingLeftBehind
<1>12. FileHeld'
  <2> SUFFICES ASSUME NEW v \in Upload, Untouched(v)',
                      upload'[v].phase \in {"open", "finished", "closed"}
               PROVE  files'[upload'[v].file] = v
    BY DEF FileHeld
  <2>1. CASE v = u
    BY <1>6, <1>7, <2>1
  <2>2. CASE v # u
    <3>1. moved \subseteq Upload /\ Untouched(v)
      BY <1>1, <1>6, <1>8, <2>2 DEF TypeOK, Untouched
    <3>2. files[upload[v].file] = v /\ upload[v].file \in Candidate
      BY <1>1, <1>6, <2>2, <3>1 DEF FileHeld, OwnFile
    <3>3. QED
      BY <1>2, <1>6, <1>7, <2>2, <3>2
  <2>3. QED
    BY <2>1, <2>2
<1>13. WholeWhenAnswered'
  BY <1>1, <1>6 DEF WholeWhenAnswered
<1>14. QED
  BY <1>9, <1>10, <1>11, <1>12, <1>13 DEF IInv

-----------------------------------------------------------------------------
LEMMA RequestKeeps == ASSUME IInv, NEW u \in Upload, Request(u) PROVE IInv'
<1>1. upload[u].phase = "new" /\ UNCHANGED <<tunnel, server, moved, stuck>>
  BY DEF Request
<1>2. CASE Refuse(u)
  <2> DEFINE h == [upload[u] EXCEPT !.phase = "refused", !.answer = "error"]
  <2>1. upload \in [Upload -> Handler] /\ upload[u] \in Handler
    BY DEF IInv, TypeOK
  <2>2. /\ h \in Handler /\ h.phase = "refused" /\ h.file = upload[u].file
        /\ upload' = [upload EXCEPT ![u] = h]
    BY <1>2, <2>1 DEF Refuse, Handler
  <2>3. UNCHANGED files
    BY <1>2 DEF Refuse
  <2> HIDE DEF h
  <2>4. QED
    BY <1>1, <2>2, <2>3, HandlerMoves
<1>3. CASE CreateFile(u)
  BY <1>1, <1>3, CreateKeeps
<1>4. QED
  BY <1>2, <1>3 DEF Request

\* The callbacks of an upload that leave its file alone.
LEMMA CallbackKeeps == ASSUME IInv, NEW u \in Upload, Callback(u) PROVE IInv'
<1> USE GatewayAssumption
<1> DEFINE old == upload[u]
<1>1. /\ upload \in [Upload -> Handler] /\ old \in Handler
      /\ old.bytes \in Nat /\ old.bytes <= MaxBytes
      /\ old.written \in Nat /\ old.written <= MaxBytes
  BY DEF IInv, TypeOK, Handler, Size
<1>2. CASE Data(u)
  <2> DEFINE h == [old EXCEPT !.bytes = @ + 1]
  <2>1. old.phase = "open" /\ UNCHANGED <<tunnel, server, moved>>
    BY <1>2 DEF Data, Up
  <2>2. CASE Fail(u, old)
    BY <2>1, <2>2, FailKeeps
  <2>3. CASE /\ old.bytes + 1 <= MaxBytes /\ UNCHANGED <<files, stuck>>
             /\ upload' = [upload EXCEPT ![u].bytes = @ + 1]
    <3>1. /\ h \in Handler /\ h.phase = "open" /\ h.file = old.file
          /\ upload' = [upload EXCEPT ![u] = h]
      BY <1>1, <2>1, <2>3 DEF Handler, Size
    <3> HIDE DEF h
    <3>2. QED
      BY <2>1, <2>3, <3>1, HandlerMoves
  <2>4. QED
    BY <1>1, <1>2, <2>2, <2>3 DEF Data
<1>3. CASE Write(u)
  <2> DEFINE h == [old EXCEPT !.written = @ + 1]
  <2>1. /\ old.phase = "open" /\ old.written < old.bytes
        /\ UNCHANGED <<tunnel, server, moved>>
    BY <1>3 DEF Write, Up
  <2>2. CASE Fail(u, old)
    BY <2>1, <2>2, FailKeeps
  <2>3. CASE UNCHANGED <<files, stuck>> /\ upload' = [upload EXCEPT ![u].written = @ + 1]
    <3>1. /\ h \in Handler /\ h.phase = "open" /\ h.file = old.file
          /\ upload' = [upload EXCEPT ![u] = h]
      BY <1>1, <2>1, <2>3 DEF Handler, Size
    <3> HIDE DEF h
    <3>2. QED
      BY <2>1, <2>3, <3>1, HandlerMoves
  <2>4. QED
    BY <1>3, <2>2, <2>3 DEF Write
<1>4. CASE End(u)
  <2> DEFINE h == [old EXCEPT !.ended = TRUE]
  <2>1. /\ h \in Handler /\ h.phase = "open" /\ old.phase = "open" /\ h.file = old.file
        /\ upload' = [upload EXCEPT ![u] = h]
        /\ UNCHANGED <<files, tunnel, server, moved, stuck>>
    BY <1>1, <1>4 DEF End, Up, Handler
  <2> HIDE DEF h
  <2>2. QED
    BY <2>1, HandlerMoves
<1>5. CASE Finish(u)
  <2> DEFINE h == [old EXCEPT !.phase = "finished", !.answer = "ok"]
  <2>1. /\ h \in Handler /\ h.phase = "finished" /\ old.phase = "open" /\ h.file = old.file
        /\ h.ended /\ h.written = h.bytes
        /\ upload' = [upload EXCEPT ![u] = h]
        /\ UNCHANGED <<files, tunnel, server, moved, stuck>>
    BY <1>1, <1>5 DEF Finish, Up, Handler
  <2> HIDE DEF h
  <2>2. QED
    BY <2>1, HandlerMoves
<1>6. CASE CloseFile(u)
  <2> DEFINE h == [old EXCEPT !.phase = "closed"]
  <2>1. old.phase = "finished" /\ UNCHANGED <<tunnel, server, moved>>
    BY <1>6 DEF CloseFile
  <2>2. CASE Fail(u, old)
    BY <2>1, <2>2, FailKeeps
  <2>3. CASE upload' = [upload EXCEPT ![u].phase = "closed"] /\ UNCHANGED <<files, stuck>>
    <3>1. old.ended /\ old.written = old.bytes
      BY <2>1 DEF IInv, WholeWhenAnswered
    <3>2. /\ h \in Handler /\ h.phase = "closed" /\ h.file = old.file
          /\ h.ended /\ h.written = h.bytes
          /\ upload' = [upload EXCEPT ![u] = h]
      BY <1>1, <2>3, <3>1 DEF Handler
    <3> HIDE DEF h
    <3>3. QED
      BY <2>1, <2>3, <3>2, HandlerMoves
  <2>4. QED
    BY <1>6, <2>2, <2>3 DEF CloseFile
<1>7. CASE Disconnect(u)
  BY <1>7, FailKeeps DEF Disconnect, Up
<1>8. QED
  BY <1>2, <1>3, <1>4, <1>5, <1>6, <1>7 DEF Callback

\* Forwarding and the exit have nothing to do with uploads.
LEMMA Elsewhere ==
  ASSUME IInv, UNCHANGED <<files, upload, moved, stuck>>,
         tunnel' \in [Tunnel -> [phase: {"new", "proxied", "upgraded"},
                                 client: {"open", "closed"},
                                 backend: {"none", "connecting", "open", "closed"}]],
         server' \in {"listening", "exited"}
  PROVE  IInv'
BY DEF IInv, TypeOK, OwnFile, NothingLeftBehind, FileHeld, Untouched, WholeWhenAnswered

LEMMA TunnelKeeps ==
  ASSUME IInv, NEW t \in Tunnel,
         \/ Forward(t) \/ BackendAnswers(t) \/ BackendRefuses(t) \/ ClientGoes(t)
         \/ BackendGoes(t) \/ ResponseEnds(t) \/ ClientClosed(t) \/ BackendClosed(t)
  PROVE  IInv'
<1> DEFINE Ends == [phase: {"new", "proxied", "upgraded"}, client: {"open", "closed"},
                    backend: {"none", "connecting", "open", "closed"}]
<1>1. tunnel \in [Tunnel -> Ends] /\ server \in {"listening", "exited"} /\ tunnel[t] \in Ends
  BY DEF IInv, TypeOK
<1>2. UNCHANGED <<files, upload, server, moved, stuck>>
  BY DEF Forward, BackendAnswers, BackendRefuses, ClientGoes, BackendGoes, ResponseEnds,
         ClientClosed, BackendClosed, Set
<1>3. tunnel' \in [Tunnel -> Ends]
  <2>1. ASSUME NEW client \in {"open", "closed"},
               NEW backend \in {"none", "connecting", "open", "closed"},
               Set(t, client, backend)
        PROVE  tunnel' \in [Tunnel -> Ends]
    BY <1>1, <2>1 DEF Set
  <2>2. CASE Forward(t)
    BY <1>1, <2>2 DEF Forward
  <2>3. tunnel[t].client \in {"open", "closed"}
        /\ tunnel[t].backend \in {"none", "connecting", "open", "closed"}
    BY <1>1
  <2>4. QED
    BY <2>1, <2>2, <2>3 DEF BackendAnswers, BackendRefuses, ClientGoes, BackendGoes,
                            ResponseEnds, ClientClosed, BackendClosed
<1>4. QED
  BY <1>1, <1>2, <1>3, Elsewhere

LEMMA OthersKeep ==
  ASSUME IInv, NEW c \in Candidate, OthersCreate(c) \/ OthersRemove(c)
  PROVE  IInv'
<1> USE GatewayAssumption
<1>1. TypeOK /\ OwnFile /\ NothingLeftBehind /\ FileHeld /\ WholeWhenAnswered
  BY DEF IInv
<1>2. /\ UNCHANGED <<upload, tunnel, server, stuck>>
      /\ files' \in [Candidate -> Upload \cup {Other, None}]
      /\ \A d \in Candidate: d # c => files'[d] = files[d]
      /\ files'[c] \notin Upload
      /\ moved' = moved \cup ({files[c]} \cap Upload)
  <2>1. files \in [Candidate -> Upload \cup {Other, None}]
    BY <1>1 DEF TypeOK
  <2>2. QED
    BY <2>1 DEF OthersCreate, OthersRemove
<1>3. TypeOK'
  BY <1>1, <1>2 DEF TypeOK
<1>4. OwnFile' /\ NothingLeftBehind'
  BY <1>1, <1>2 DEF OwnFile, NothingLeftBehind
<1>5. FileHeld'
  <2> SUFFICES ASSUME NEW v \in Upload, Untouched(v)',
                      upload[v].phase \in {"open", "finished", "closed"}
               PROVE  files'[upload[v].file] = v
    BY <1>2 DEF FileHeld
  <2>1. Untouched(v)
    BY <1>2 DEF Untouched
  <2>2. files[upload[v].file] = v /\ upload[v].file \in Candidate
    BY <1>1, <2>1 DEF FileHeld, OwnFile
  <2>3. v \notin moved'
    BY DEF Untouched
  <2>4. upload[v].file # c
    BY <1>2, <2>2, <2>3
  <2>5. QED
    BY <1>2, <2>2, <2>4
<1>6. WholeWhenAnswered'
  BY <1>1, <1>2 DEF WholeWhenAnswered
<1>7. QED
  BY <1>3, <1>4, <1>5, <1>6 DEF IInv

LEMMA NextInv == IInv /\ [Next]_vars => IInv'
<1> SUFFICES ASSUME IInv, [Next]_vars PROVE IInv'
  OBVIOUS
<1>1. ASSUME NEW u \in Upload, Request(u) \/ Callback(u) PROVE IInv'
  BY <1>1, RequestKeeps, CallbackKeeps
<1>2. ASSUME NEW t \in Tunnel,
             \/ Forward(t) \/ BackendAnswers(t) \/ BackendRefuses(t) \/ ClientGoes(t)
             \/ BackendGoes(t) \/ ResponseEnds(t) \/ ClientClosed(t) \/ BackendClosed(t)
      PROVE  IInv'
  BY <1>2, TunnelKeeps
<1>3. CASE Exit
  BY <1>3, Elsewhere DEF Exit, IInv, TypeOK
<1>4. ASSUME NEW c \in Candidate, OthersCreate(c) \/ OthersRemove(c) PROVE IInv'
  BY <1>4, OthersKeep
<1>5. CASE UNCHANGED vars
  BY <1>5, Elsewhere DEF vars, IInv, TypeOK
<1>6. QED
  BY <1>1, <1>2, <1>3, <1>4, <1>5 DEF Next

LEMMA Invariant == Spec => []IInv
BY InitInv, NextInv, PTL DEF Spec

\* The handlers, the directory and the forwarded requests keep their types.
THEOREM TypeCorrect == Spec => []TypeOK
<1>1. IInv => TypeOK
  BY DEF IInv
<1>2. QED
  BY <1>1, Invariant, PTL

\* A failed or refused upload leaves no file that could have been removed,
\* wherever the failure came from.
THEOREM FailuresLeaveNothing == Spec => []NothingLeftBehind
<1>1. IInv => NothingLeftBehind
  BY DEF IInv
<1>2. QED
  BY <1>1, Invariant, PTL

\* A 200 means that the file has the told name and all of the body, while
\* nobody but the gateway removes files of uploads.
THEOREM AnsweredIsStored == Spec => []StoredAsAnswered
<1>1. IInv => StoredAsAnswered
  BY DEF IInv, FileHeld, WholeWhenAnswered, Untouched, StoredAsAnswered
<1>2. QED
  BY <1>1, Invariant, PTL
=============================================================================
