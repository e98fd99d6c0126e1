-------------------------- MODULE BridgeBotProofs --------------------------
(***************************************************************************)
(* Proofs about BindingStore and BridgeBot, for any sets of conversations, *)
(* directories and sessions, any number of updates and crashes, and any    *)
(* set of failing calls: the types, that the two maps of the store agree,  *)
(* that no session leaves its directory, and that the events of a turn     *)
(* reach the conversation that waits for it.                               *)
(***************************************************************************)
EXTENDS BridgeBot, SequenceTheorems, TLAPS

\* What a handler has read, and what still holds of it at each await: updates
\* are handled one at a time, so its own conversation is as it found it.
HandlerInv ==
  /\ At("listing") \/ At("binding") => handler.update.kind = "bind"
  /\ At("binding") => handler.dir \in Dir
  /\ At("creating") \/ At("storing") =>
       /\ store.bindings[TheConv] # None
       /\ store.bindings[TheConv].directory = handler.dir
  /\ At("storing") =>
       /\ handler.session \in Session /\ home[handler.session] = handler.dir
       /\ \A c \in Conv : /\ SessionOf(store.bindings, c) # handler.session
                          /\ SessionOf(disk, c) # handler.session
  /\ At("prompting") \/ At("inTurn") =>
       /\ handler.session \in Session /\ home[handler.session] = handler.dir
       /\ SessionOf(store.bindings, TheConv) = handler.session
  /\ At("aborting") => handler.session \in Session

\* The store in memory and the list in the file are each in order; they may
\* differ from each other after a save that failed.
StoreInv ==
  /\ Coherent(store) /\ SessionsDistinct(disk)
  /\ InHome(store.bindings) /\ InHome(disk)

IInv == TypeOK /\ HandlerInv /\ StoreInv

-----------------------------------------------------------------------------
(* The binding store *)

LEMMA SessionOfType ==
  ASSUME NEW bs \in Bindings, NEW c \in Conv
  PROVE  SessionOf(bs, c) \in Session \cup {None}
BY DEF Bindings, Binding, SessionOf

\* What put does to the sessions of a list: only c's own changes.
LEMMA SessionOfPut ==
  ASSUME NEW bs \in Bindings, NEW c \in Conv, NEW b \in Binding, NEW d \in Conv
  PROVE  SessionOf([bs EXCEPT ![c] = b], d) =
           IF d = c THEN b.opencodeSession ELSE SessionOf(bs, d)
<1>1. b # None
  BY NoneAssumption
<1>2. QED
  BY <1>1 DEF Bindings, SessionOf

\* put keeps the two maps together, if nobody else holds the session it is given.
LEMMA PutCoherent ==
  ASSUME NEW st \in Store, NEW c \in Conv, NEW b \in Binding, Coherent(st),
         \A d \in Conv \ {c} : SessionOf(st.bindings, d) = b.opencodeSession
                                 => b.opencodeSession = None
  PROVE  /\ Put(st, c, b) \in Store
         /\ Put(st, c, b).bindings = [st.bindings EXCEPT ![c] = b]
         /\ Coherent(Put(st, c, b))
<1> DEFINE old == SessionOf(st.bindings, c)
           new == b.opencodeSession
           bs == [st.bindings EXCEPT ![c] = b]
           idx == [s \in Session |-> IF s = new THEN c
                                    ELSE IF s = old THEN None
                                    ELSE st.byOpencodeSession[s]]
<1>1. Put(st, c, b) = [bindings |-> bs, byOpencodeSession |-> idx]
  BY DEF Put
<1>2. st.bindings \in Bindings /\ bs \in Bindings
  BY DEF Store, Bindings
<1>3. idx \in [Session -> Conv \cup {None}]
  BY DEF Store
<1>4. ASSUME NEW s \in Session, NEW d \in Conv
      PROVE  idx[s] = d <=> SessionOf(bs, d) = s
  <2>1. SessionOf(bs, d) = IF d = c THEN new ELSE SessionOf(st.bindings, d)
    BY <1>2, SessionOfPut
  <2>2. /\ st.byOpencodeSession[s] = d <=> SessionOf(st.bindings, d) = s
        /\ st.byOpencodeSession[s] = c <=> old = s
    BY DEF Coherent
  <2>3. idx[s] = IF s = new THEN c ELSE IF s = old THEN None
                 ELSE st.byOpencodeSession[s]
    OBVIOUS
  <2>4. s # None /\ d # None
    BY NoneAssumption
  <2>5. QED
    BY <2>1, <2>2, <2>3, <2>4
<1>5. QED
  BY <1>1, <1>2, <1>3, <1>4 DEF Store, Coherent

\* In a coherent store no two conversations share a session.
LEMMA CoherentDistinct ==
  ASSUME NEW st \in Store, Coherent(st)
  PROVE  SessionsDistinct(st.bindings)
<1> SUFFICES ASSUME NEW c \in Conv, NEW d \in Conv,
                    SessionOf(st.bindings, c) = SessionOf(st.bindings, d),
                    SessionOf(st.bindings, c) # None
             PROVE  c = d
  BY DEF SessionsDistinct
<1>1. SessionOf(st.bindings, c) \in Session
  BY SessionOfType DEF Store
<1>2. QED
  BY <1>1 DEF Coherent

\* A list without shared sessions loads into a coherent store.
LEMMA LoadCoherent ==
  ASSUME NEW bs \in Bindings, SessionsDistinct(bs)
  PROVE  /\ LoadStore(bs) \in Store /\ LoadStore(bs).bindings = bs
         /\ Coherent(LoadStore(bs))
<1> DEFINE Holder(s) == CHOOSE c \in Conv : SessionOf(bs, c) = s
           idx == [s \in Session |-> IF \E c \in Conv : SessionOf(bs, c) = s
                                    THEN Holder(s) ELSE None]
<1>1. LoadStore(bs) = [bindings |-> bs, byOpencodeSession |-> idx]
  BY DEF LoadStore
<1>2. ASSUME NEW s \in Session, NEW c \in Conv, SessionOf(bs, c) = s
      PROVE  Holder(s) = c
  <2>1. Holder(s) \in Conv /\ SessionOf(bs, Holder(s)) = s
    BY <1>2, Zenon
  <2>2. s # None
    BY NoneAssumption
  <2>3. QED
    BY <1>2, <2>1, <2>2 DEF SessionsDistinct
<1>3. idx \in [Session -> Conv \cup {None}]
  BY <1>2
<1>4. ASSUME NEW s \in Session, NEW c \in Conv
      PROVE  idx[s] = c <=> SessionOf(bs, c) = s
  <2>1. c # None
    BY NoneAssumption
  <2>2. idx[s] = c => SessionOf(bs, c) = s
    BY <1>2, <2>1
  <2>3. SessionOf(bs, c) = s => idx[s] = c
    BY <1>2
  <2>4. QED
    BY <2>2, <2>3
<1>5. QED
  BY <1>1, <1>3, <1>4 DEF Store, Coherent

-----------------------------------------------------------------------------
(* Types *)

LEMMA UpdateType ==
  ASSUME NEW u \in Update
  PROVE  /\ u.conv \in Conv /\ u.kind \in {"bind", "new", "text", "abort", "permission"}
         /\ u.kind = "bind" => u.name \in Name
         /\ u.kind = "permission" => u.request \in Request
BY DEF Update

LEMMA HandlerType ==
  ASSUME TypeOK, handler # None
  PROVE  /\ handler \in Handler /\ handler.update \in Update /\ TheConv \in Conv
         /\ handler.dir \in Dir \cup {None}
BY UpdateType DEF TypeOK, Handler, TheConv

LEMMA FinishType ==
  ASSUME NEW u \in Update, TypeOK, Finish(u)
  PROVE  handler' \in Handler \cup {None} /\ done' \in Seq(Update)
BY AppendProperties DEF TypeOK, Finish

\* What Upsert and SetOpencodeSession put, and what they leave.
LEMMA UpsertIsPut ==
  ASSUME NEW c \in Conv, NEW n \in Name, NEW d \in Dir, NEW s \in Session \cup {None}
  PROVE  \E b \in Binding :
           /\ b.directory = d /\ b.opencodeSession = s
           /\ Upsert(store, c, n, d, s) = Put(store, c, b)
<1> DEFINE b == [tmuxSession |-> n, directory |-> d, opencodeSession |-> s]
<1>1. b \in Binding
  BY DEF Binding
<1>2. Upsert(store, c, n, d, s) = Put(store, c, b)
  BY DEF Upsert
<1>3. QED
  BY <1>1, <1>2

LEMMA SetIsPut ==
  ASSUME TypeOK, NEW c \in Conv, store.bindings[c] # None, NEW s \in Session
  PROVE  \E b \in Binding :
           /\ b.directory = store.bindings[c].directory /\ b.opencodeSession = s
           /\ SetOpencodeSession(store, c, s) = Put(store, c, b)
<1> DEFINE b == [store.bindings[c] EXCEPT !.opencodeSession = s]
<1>1. store.bindings[c] \in Binding
  BY DEF TypeOK, Store, Bindings
<1>2. b \in Binding /\ b.directory = store.bindings[c].directory /\ b.opencodeSession = s
  BY <1>1 DEF Binding
<1>3. SetOpencodeSession(store, c, s) = Put(store, c, b)
  BY DEF SetOpencodeSession
<1>4. QED
  BY <1>2, <1>3

\* A saved put keeps the store and the file in order, if the session it is
\* given belongs to the directory and to no other conversation, in the list in
\* memory or in the one of the file.
LEMMA PutSaved ==
  ASSUME TypeOK, StoreInv, NEW c \in Conv, NEW b \in Binding,
         Save(Put(store, c, b)), UNCHANGED home,
         b.opencodeSession # None =>
           /\ home[b.opencodeSession] = b.directory
           /\ \A d \in Conv \ {c} : SessionOf(store.bindings, d) # b.opencodeSession
  PROVE  /\ store' \in Store /\ disk' \in Bindings /\ StoreInv'
         /\ store'.bindings = [store.bindings EXCEPT ![c] = b]
         /\ disk' = disk \/ disk' = store'.bindings
<1>1. /\ store' \in Store /\ Coherent(store')
      /\ store'.bindings = [store.bindings EXCEPT ![c] = b]
  BY PutCoherent DEF TypeOK, StoreInv, Save
<1>2. disk' = disk \/ disk' = store'.bindings
  BY DEF Save
<1>3. store.bindings \in Bindings /\ store'.bindings \in Bindings
  BY <1>1 DEF TypeOK, Store
<1>4. InHome(store'.bindings)
  <2>1. ASSUME NEW d \in Conv, SessionOf(store'.bindings, d) # None
        PROVE  home[SessionOf(store'.bindings, d)] = store'.bindings[d].directory
    <3>1. CASE d = c
      BY <1>1, <1>3, <2>1, <3>1, SessionOfPut DEF Bindings
    <3>2. CASE d # c
      BY <1>1, <1>3, <2>1, <3>2, SessionOfPut DEF Bindings, StoreInv, InHome
    <3>3. QED
      BY <3>1, <3>2
  <2>2. QED
    BY <2>1 DEF InHome
<1>5. SessionsDistinct(store'.bindings)
  BY <1>1, CoherentDistinct
<1>6. QED
  BY <1>1, <1>2, <1>3, <1>4, <1>5 DEF TypeOK, StoreInv, InHome

-----------------------------------------------------------------------------
(* The inductive invariant *)

LEMMA InitIInv == Init => IInv
<1> SUFFICES ASSUME Init PROVE IInv
  OBVIOUS
<1>1. disk \in Bindings /\ \A c \in Conv : SessionOf(disk, c) = None
  BY DEF Init
<1>2. SessionsDistinct(disk) /\ InHome(disk)
  BY <1>1 DEF SessionsDistinct, InHome
<1>3. store \in Store /\ Coherent(store) /\ store.bindings = disk
  BY <1>1, <1>2, LoadCoherent DEF Init
<1>4. TypeOK
  BY <1>1, <1>3, BoundAssumption DEF Init, TypeOK
<1>5. HandlerInv
  BY DEF Init, HandlerInv, At
<1>6. QED
  BY <1>2, <1>3, <1>4, <1>5 DEF IInv, StoreInv

\* The start of a handler: what it reads of the store.
LEMMA BeginOK ==
  ASSUME TypeOK, StoreInv, NEW u \in Update, Begin(u), UNCHANGED <<store, disk, home>>
  PROVE  /\ handler' \in Handler \cup {None} /\ done' \in Seq(Update)
         /\ HandlerInv'
<1> DEFINE binding == store.bindings[u.conv]
           Wait(step, dir, session) ==
             /\ handler' = [update |-> u, step |-> step, dir |-> dir, session |-> session]
             /\ UNCHANGED done
<1>1. u.conv \in Conv /\ binding \in Binding \cup {None}
  BY UpdateType DEF TypeOK, Store, Bindings
<1>2. done \in Seq(Update)
  BY DEF TypeOK
<1>3. CASE Finish(u)
  BY <1>3, FinishType DEF Finish, HandlerInv, At
<1>4. CASE u.kind = "bind" /\ Wait("listing", None, None)
  BY <1>2, <1>4 DEF Handler, Step, HandlerInv, At
<1>5. CASE binding # None /\ Wait("creating", binding.directory, None)
  BY <1>1, <1>2, <1>5 DEF Handler, Step, HandlerInv, At, TheConv, Binding
<1>6. CASE /\ binding # None /\ binding.opencodeSession # None
           /\ Wait("prompting", binding.directory, binding.opencodeSession)
  <2>1. binding.opencodeSession \in Session /\ SessionOf(store.bindings, u.conv) = binding.opencodeSession
    BY <1>1, <1>6 DEF Binding, SessionOf
  <2>2. home[binding.opencodeSession] = binding.directory
    BY <1>1, <1>6, <2>1 DEF StoreInv, InHome
  <2>3. QED
    BY <1>1, <1>2, <1>6, <2>1, <2>2 DEF Handler, Step, HandlerInv, At, TheConv, Binding
<1>7. CASE /\ binding # None /\ binding.opencodeSession # None
           /\ Wait("aborting", None, binding.opencodeSession)
  BY <1>1, <1>2, <1>7 DEF Handler, Step, HandlerInv, At, Binding
<1>8. CASE binding # None /\ Wait("replying", binding.directory, None)
  BY <1>1, <1>2, <1>8 DEF Handler, Step, HandlerInv, At, Binding
<1>9. QED
  BY <1>3, <1>4, <1>5, <1>6, <1>7, <1>8 DEF Begin

\* An action that ends the handler, or leaves it alone, and keeps the store,
\* the file and the directories of the sessions.
LEMMA KeptOK ==
  ASSUME IInv, UNCHANGED <<store, disk, home>>, handler' = handler \/ handler' = None
  PROVE  HandlerInv' /\ StoreInv'
<1>1. StoreInv'
  BY DEF IInv, StoreInv, InHome
<1>2. CASE handler' = None
  BY <1>1, <1>2 DEF HandlerInv, At
<1>3. CASE handler' = handler
  BY <1>1, <1>3 DEF IInv, HandlerInv, At, TheConv
<1>4. QED
  BY <1>2, <1>3

\* The handlers' steps.
LEMMA HandlerStepOK == IInv /\ HandlerStep => IInv'
<1> SUFFICES ASSUME IInv, HandlerStep PROVE IInv'
  OBVIOUS
<1>t. TypeOK /\ HandlerInv /\ StoreInv
  BY DEF IInv
<1>h. /\ handler # None /\ handler \in Handler /\ handler.update \in Update
      /\ TheConv \in Conv /\ handler.dir \in Dir \cup {None}
  <2>1. handler # None
    BY DEF HandlerStep, ListSessions, Bind, CreateSession, StoreSession, StartTurn,
       TurnReturns, Abort, Reply, At
  <2>2. QED
    BY <1>t, <2>1, HandlerType
<1>1. CASE ListSessions
  <2>1. UNCHANGED <<store, disk, home>>
    BY <1>1 DEF ListSessions, opencode
  <2>2. CASE Finish(handler.update)
    <3>1. HandlerInv' /\ StoreInv'
      BY <2>1, <2>2, KeptOK DEF Finish
    <3>2. TypeOK'
      BY <1>1, <1>t, <1>h, <2>2, FinishType DEF ListSessions, TypeOK, opencode
    <3>3. QED
      BY <3>1, <3>2 DEF IInv
  <2>3. CASE \E dir \in Dir : /\ handler' = [handler EXCEPT !.step = "binding", !.dir = dir]
                              /\ UNCHANGED done
    <3>1. PICK dir \in Dir : handler' = [handler EXCEPT !.step = "binding", !.dir = dir]
      BY <2>3
    <3>2. handler' \in Handler /\ handler'.step = "binding" /\ handler'.dir = dir
          /\ handler'.update = handler.update
      BY <1>h, <3>1 DEF Handler, Step
    <3>3. StoreInv'
      BY <1>t, <2>1 DEF StoreInv, InHome
    <3>4. HandlerInv'
      BY <1>1, <1>t, <1>h, <3>2 DEF ListSessions, HandlerInv, At
    <3>5. TypeOK'
      BY <1>1, <1>t, <2>3, <3>2 DEF ListSessions, TypeOK, opencode
    <3>6. QED
      BY <3>3, <3>4, <3>5 DEF IInv
  <2>4. QED
    BY <1>1, <2>2, <2>3 DEF ListSessions
<1>2. CASE Bind
  <2> DEFINE carried == Carried(TheConv, handler.dir)
  <2>1. handler.dir \in Dir /\ handler.update.name \in Name
    BY <1>2, <1>t, <1>h, UpdateType DEF Bind, HandlerInv
  <2>2. /\ carried \in Session \cup {None}
        /\ carried # None => /\ carried = SessionOf(store.bindings, TheConv)
                             /\ store.bindings[TheConv].directory = handler.dir
    BY <1>t, <1>h, SessionOfType DEF Carried, SessionOf, TypeOK, Store
  <2>3. PICK b \in Binding :
          /\ b.directory = handler.dir /\ b.opencodeSession = carried
          /\ Upsert(store, TheConv, handler.update.name, handler.dir, carried)
               = Put(store, TheConv, b)
    BY <1>h, <2>1, <2>2, UpsertIsPut
  <2>4. Save(Put(store, TheConv, b)) /\ UNCHANGED home /\ Finish(handler.update)
    BY <1>2, <2>3 DEF Bind, opencode
  <2>5. SessionsDistinct(store.bindings)
    BY <1>t, CoherentDistinct DEF TypeOK, StoreInv
  <2>6. b.opencodeSession # None =>
          /\ home[b.opencodeSession] = b.directory
          /\ \A d \in Conv \ {TheConv} : SessionOf(store.bindings, d) # b.opencodeSession
    BY <1>t, <1>h, <2>2, <2>3, <2>5 DEF StoreInv, InHome, SessionsDistinct
  <2>7. store' \in Store /\ disk' \in Bindings /\ StoreInv'
    BY <1>t, <1>h, <2>4, <2>6, PutSaved
  <2>8. TypeOK'
    BY <1>2, <1>t, <1>h, <2>4, <2>7, FinishType DEF Bind, TypeOK, opencode
  <2>9. HandlerInv'
    BY <2>4 DEF Finish, HandlerInv, At
  <2>10. QED
    BY <2>7, <2>8, <2>9 DEF IInv
<1>3. CASE CreateSession
  <2>1. CASE Fresh = {}
    <3>1. UNCHANGED <<store, disk, home>> /\ Finish(handler.update)
      BY <1>3, <2>1 DEF CreateSession
    <3>2. HandlerInv' /\ StoreInv'
      BY <3>1, KeptOK DEF Finish
    <3>3. TypeOK'
      BY <1>3, <1>t, <1>h, <3>1, FinishType DEF CreateSession, TypeOK
    <3>4. QED
      BY <3>2, <3>3 DEF IInv
  <2>2. CASE Fresh # {}
    <3>1. PICK s \in Fresh :
            /\ home' = [home EXCEPT ![s] = handler.dir]
            /\ handler' = [handler EXCEPT !.step = "storing", !.session = s]
            /\ UNCHANGED <<done, store, disk>>
      BY <1>3, <2>2, Zenon DEF CreateSession
    <3>2. s \in Session /\ home[s] = None
      BY DEF Fresh
    <3>3. /\ handler' \in Handler /\ handler'.step = "storing" /\ handler'.session = s
          /\ handler'.update = handler.update /\ handler'.dir = handler.dir
      BY <1>h, <3>1, <3>2 DEF Handler, Step
    <3>4. home' \in [Session -> Dir \cup {None}] /\ home'[s] = handler.dir
      BY <1>t, <1>h, <3>1, <3>2 DEF TypeOK
    <3>5. store.bindings \in Bindings /\ disk \in Bindings
      BY <1>t DEF TypeOK, Store
    <3>6. ASSUME NEW bs \in Bindings, InHome(bs), NEW c \in Conv
          PROVE  SessionOf(bs, c) # s
      <4>1. CASE bs[c] = None
        BY <4>1, <3>2, NoneAssumption DEF SessionOf
      <4>2. CASE bs[c] # None
        <5>1. bs[c].directory \in Dir
          BY <4>2 DEF Bindings, Binding
        <5>2. bs[c].directory # None /\ s # None
          BY <3>2, <5>1, NoneAssumption
        <5>3. QED
          BY <3>2, <3>6, <5>2 DEF InHome
      <4>3. QED
        BY <4>1, <4>2
    <3>7. InHome(store.bindings)' /\ InHome(disk)'
      BY <1>t, <3>1, <3>5, <3>6, SessionOfType DEF StoreInv, InHome, TypeOK
    <3>8. StoreInv'
      BY <1>t, <3>1, <3>7 DEF StoreInv
    <3>9. HandlerInv'
      BY <1>3, <1>t, <1>h, <3>1, <3>2, <3>3, <3>4, <3>5, <3>6
         DEF CreateSession, HandlerInv, StoreInv, At, TheConv
    <3>10. TypeOK'
      BY <1>3, <1>t, <3>1, <3>3, <3>4 DEF CreateSession, TypeOK
    <3>11. QED
      BY <3>8, <3>9, <3>10 DEF IInv
  <2>3. QED
    BY <2>1, <2>2
<1>4. CASE StoreSession
  <2> DEFINE s == handler.session
  <2>1. /\ s \in Session /\ home[s] = handler.dir /\ store.bindings[TheConv] # None
        /\ store.bindings[TheConv].directory = handler.dir
        /\ \A c \in Conv : SessionOf(store.bindings, c) # s
    BY <1>4, <1>t DEF StoreSession, HandlerInv
  <2>2. PICK b \in Binding :
          /\ b.directory = handler.dir /\ b.opencodeSession = s
          /\ SetOpencodeSession(store, TheConv, s) = Put(store, TheConv, b)
    BY <1>t, <1>h, <2>1, SetIsPut
  <2>3. Save(Put(store, TheConv, b)) /\ UNCHANGED home
    BY <1>4, <2>2 DEF StoreSession, opencode
  <2>4. /\ store' \in Store /\ disk' \in Bindings /\ StoreInv'
        /\ store'.bindings = [store.bindings EXCEPT ![TheConv] = b]
    BY <1>t, <1>h, <2>1, <2>2, <2>3, PutSaved
  <2>5. CASE Finish(handler.update)
    <3>1. TypeOK'
      BY <1>4, <1>t, <1>h, <2>4, <2>5, FinishType DEF StoreSession, TypeOK, opencode
    <3>2. HandlerInv'
      BY <2>5 DEF Finish, HandlerInv, At
    <3>3. QED
      BY <2>4, <3>1, <3>2 DEF IInv
  <2>6. CASE handler' = [handler EXCEPT !.step = "prompting"] /\ UNCHANGED done
    <3>1. /\ handler' \in Handler /\ handler'.step = "prompting" /\ handler'.session = s
          /\ handler'.update = handler.update /\ handler'.dir = handler.dir
      BY <1>h, <2>6 DEF Handler, Step
    <3>2. TypeOK'
      BY <1>4, <1>t, <2>4, <2>6, <3>1 DEF StoreSession, TypeOK, opencode
    <3>3. SessionOf(store'.bindings, TheConv) = s
      <4>1. store.bindings \in Bindings
        BY <1>t DEF TypeOK, Store
      <4>2. SessionOf([store.bindings EXCEPT ![TheConv] = b], TheConv) = b.opencodeSession
        BY <1>h, <4>1, SessionOfPut
      <4>3. QED
        BY <2>2, <2>4, <4>2
    <3>4. HandlerInv'
      BY <2>1, <2>3, <3>1, <3>3 DEF HandlerInv, At, TheConv
    <3>5. QED
      BY <2>4, <3>2, <3>4 DEF IInv
  <2>7. QED
    BY <1>4, <2>5, <2>6 DEF StoreSession
<1>5. CASE StartTurn
  <2>1. UNCHANGED <<store, disk, home>>
    BY <1>5 DEF StartTurn
  <2>2. /\ handler' \in Handler /\ handler'.step = "inTurn" /\ handler'.update = handler.update
        /\ handler'.session = handler.session /\ handler'.dir = handler.dir
    BY <1>5, <1>h DEF StartTurn, Handler, Step
  <2>3. TypeOK'
    BY <1>5, <1>t, <2>2 DEF StartTurn, TypeOK, telegram
  <2>4. HandlerInv'
    BY <1>5, <1>t, <2>1, <2>2 DEF StartTurn, HandlerInv, At, TheConv
  <2>5. StoreInv'
    BY <1>t, <2>1 DEF StoreInv, InHome
  <2>6. QED
    BY <2>3, <2>4, <2>5 DEF IInv
<1>6. CASE TurnReturns \/ Abort \/ Reply
  <2>1. UNCHANGED <<store, disk, home>> /\ Finish(handler.update)
    BY <1>6 DEF TurnReturns, Abort, Reply, opencode
  <2>2. HandlerInv' /\ StoreInv'
    BY <2>1, KeptOK DEF Finish
  <2>3. handler' \in Handler \cup {None} /\ done' \in Seq(Update)
    BY <1>t, <1>h, <2>1, FinishType
  <2>4. turn' \in [Session -> {"idle", "running", "asking"}]
    BY <1>6, <1>t DEF TurnReturns, Abort, Reply, opencode, TypeOK
  <2>5. buttons' \subseteq buttons
    BY <1>6 DEF TurnReturns, Abort, Reply
  <2>6. UNCHANGED <<sent, queue, crashes, asked>>
    BY <1>6 DEF TurnReturns, Abort, Reply, opencode
  <2>7. TypeOK'
    BY <1>t, <2>1, <2>3, <2>4, <2>5, <2>6 DEF TypeOK
  <2>8. QED
    BY <2>2, <2>7 DEF IInv
<1>7. QED
  BY <1>1, <1>2, <1>3, <1>4, <1>5, <1>6 DEF HandlerStep

\* The poller, the users, opencode and crashes.
LEMMA EnvironmentOK == IInv /\ (TakeUpdate \/ Confirm \/ Environment) => IInv'
<1> SUFFICES ASSUME IInv, TakeUpdate \/ Confirm \/ Environment PROVE IInv'
  OBVIOUS
<1>t. TypeOK /\ HandlerInv /\ StoreInv
  BY DEF IInv
<1>1. CASE TakeUpdate
  <2>1. Head(queue) \in Update /\ Tail(queue) \in Seq(Update)
    BY <1>1, <1>t, HeadTailProperties DEF TakeUpdate, TypeOK
  <2>2. Begin(Head(queue)) /\ UNCHANGED <<store, disk, home>>
    BY <1>1 DEF TakeUpdate, opencode
  <2>3. handler' \in Handler \cup {None} /\ done' \in Seq(Update) /\ HandlerInv'
    BY <1>t, <2>1, <2>2, BeginOK
  <2>4. StoreInv'
    BY <1>t, <2>2 DEF StoreInv, InHome
  <2>5. TypeOK'
    BY <1>1, <1>t, <2>1, <2>3 DEF TakeUpdate, TypeOK, opencode
  <2>6. QED
    BY <2>3, <2>4, <2>5 DEF IInv
<1>2. CASE Confirm
  <2>1. HandlerInv' /\ StoreInv'
    BY <1>2, KeptOK DEF Confirm, opencode
  <2>2. done' \in Seq(Update)
    BY <1>2, EmptySeq DEF Confirm
  <2>3. TypeOK'
    BY <1>2, <1>t, <2>2 DEF Confirm, TypeOK, opencode
  <2>4. QED
    BY <2>1, <2>3 DEF IInv
<1>3. CASE CallFails
  <2>1. HandlerInv' /\ StoreInv'
    BY <1>3, KeptOK DEF CallFails, Finish, opencode
  <2>2. handler' \in Handler \cup {None} /\ done' \in Seq(Update)
    BY <1>3, <1>t, HandlerType, FinishType DEF CallFails
  <2>3. TypeOK'
    BY <1>3, <1>t, <2>2 DEF CallFails, TypeOK, opencode
  <2>4. QED
    BY <2>1, <2>3 DEF IInv
<1>4. CASE Send
  <2>1. HandlerInv' /\ StoreInv'
    BY <1>4, KeptOK DEF Send, opencode
  <2>2. queue' \in Seq(Update)
    BY <1>4, <1>t, AppendProperties DEF Send, TypeOK
  <2>3. sent' \in 0..MaxUpdates
    BY <1>4, <1>t, BoundAssumption DEF Send, TypeOK
  <2>4. TypeOK'
    BY <1>4, <1>t, <2>2, <2>3 DEF Send, TypeOK, opencode
  <2>5. QED
    BY <2>1, <2>4 DEF IInv
<1>5. ASSUME NEW s \in Session, Ask(s) PROVE IInv'
  <2>1. HandlerInv' /\ StoreInv'
    BY <1>5, KeptOK DEF Ask
  <2>2. asked[s] + 1 \in 1..MaxAsks
    BY <1>5, <1>t, BoundAssumption DEF Ask, TypeOK
  <2>3. store.byOpencodeSession[s] \in Conv \cup {None}
    BY <1>t DEF TypeOK, Store
  <2>4. buttons' \subseteq [conv: Conv, request: Request]
    BY <1>5, <1>t, <2>2, <2>3 DEF Ask, TypeOK, Request
  <2>5. turn' \in [Session -> {"idle", "running", "asking"}]
    BY <1>5, <1>t DEF Ask, TypeOK
  <2>6. asked' \in [Session -> 0..MaxAsks]
    BY <1>5, <1>t, <2>2, BoundAssumption DEF Ask, TypeOK
  <2>7. TypeOK'
    BY <1>5, <1>t, <2>4, <2>5, <2>6 DEF Ask, TypeOK, telegram
  <2>8. QED
    BY <2>1, <2>7 DEF IInv
<1>6. ASSUME NEW s \in Session, EndTurn(s) \/ AnswerElsewhere(s) PROVE IInv'
  <2>1. HandlerInv' /\ StoreInv'
    BY <1>6, KeptOK DEF EndTurn, AnswerElsewhere
  <2>2. TypeOK'
    BY <1>6, <1>t DEF EndTurn, AnswerElsewhere, TypeOK, telegram
  <2>3. QED
    BY <2>1, <2>2 DEF IInv
<1>7. CASE Crash
  <2> DEFINE again == IF handler = None THEN <<>> ELSE <<handler.update>>
  <2>1. store' \in Store /\ store'.bindings = disk /\ Coherent(store')
    BY <1>7, <1>t, LoadCoherent DEF Crash, TypeOK, StoreInv
  <2>2. handler' = None /\ UNCHANGED <<disk, home>>
    BY <1>7 DEF Crash, opencode
  <2>3. StoreInv'
    BY <1>t, <2>1, <2>2 DEF StoreInv, InHome
  <2>4. HandlerInv'
    BY <2>2 DEF HandlerInv, At
  <2>5. again \in Seq(Update)
    <3>1. CASE handler = None
      BY <3>1, EmptySeq
    <3>2. CASE handler # None
      BY <1>t, <3>2, HandlerType
    <3>3. QED
      BY <3>1, <3>2
  <2>6. queue' \in Seq(Update) /\ done' \in Seq(Update)
    <3>1. queue' = done \o again \o queue /\ done' = <<>>
      BY <1>7 DEF Crash
    <3>2. done \o again \in Seq(Update)
      BY <1>t, <2>5, ConcatProperties DEF TypeOK
    <3>3. done \o again \o queue \in Seq(Update)
      BY <1>t, <3>2, ConcatProperties DEF TypeOK
    <3>4. QED
      BY <3>1, <3>3, EmptySeq
  <2>7. crashes' \in 0..MaxCrashes
    BY <1>7, <1>t, BoundAssumption DEF Crash, TypeOK
  <2>8. TypeOK'
    BY <1>7, <1>t, <2>1, <2>2, <2>6, <2>7 DEF Crash, TypeOK, opencode
  <2>9. QED
    BY <2>3, <2>4, <2>8 DEF IInv
<1>8. QED
  BY <1>1, <1>2, <1>3, <1>4, <1>5, <1>6, <1>7 DEF Environment

LEMMA StepIInv == IInv /\ [Next]_vars => IInv'
<1> SUFFICES ASSUME IInv, [Next]_vars PROVE IInv'
  OBVIOUS
<1>1. CASE UNCHANGED vars
  <2>1. HandlerInv' /\ StoreInv'
    BY <1>1, KeptOK DEF vars
  <2>2. TypeOK'
    BY <1>1 DEF vars, IInv, TypeOK
  <2>3. QED
    BY <2>1, <2>2 DEF IInv
<1>2. QED
  BY <1>1, HandlerStepOK, EnvironmentOK DEF Next, Rest

-----------------------------------------------------------------------------
(* Theorems *)

\* In every reachable state the store and the file are in order, and what the
\* running handler has read still holds.
THEOREM Inductive == Spec => []IInv
BY InitIInv, StepIInv, PTL DEF Spec

\* Type correctness.
THEOREM TypeCorrect == Spec => []TypeOK
<1>1. IInv => TypeOK
  BY DEF IInv
<1>2. QED
  BY <1>1, Inductive, PTL

\* The store's two maps agree at every moment, and would after a restart.
THEOREM IndexIsCoherent == Spec => []IndexCoherent
<1>1. IInv => IndexCoherent
  BY LoadCoherent DEF IInv, TypeOK, StoreInv, IndexCoherent
<1>2. QED
  BY <1>1, Inductive, PTL

\* No conversation ever holds a session of another directory, although a
\* handler's directory, session and binding come from different moments.
THEOREM SessionsStayHome == Spec => []SessionInDirectory
<1>1. IInv => SessionInDirectory
  BY DEF IInv, StoreInv, HandlerInv, SessionInDirectory
<1>2. QED
  BY <1>1, Inductive, PTL

\* The events of the turn a conversation waits for are delivered to it.
THEOREM TurnsAreRouted == Spec => []OwnTurnRouted
<1>1. ASSUME IInv, At("inTurn")
      PROVE  store.byOpencodeSession[handler.session] = TheConv
  <2>1. TheConv \in Conv
    BY <1>1, HandlerType DEF IInv, At
  <2>2. handler.session \in Session /\ SessionOf(store.bindings, TheConv) = handler.session
    BY <1>1 DEF IInv, HandlerInv
  <2>3. QED
    BY <1>1, <2>1, <2>2 DEF IInv, StoreInv, Coherent
<1>2. IInv => OwnTurnRouted
  BY <1>1 DEF OwnTurnRouted
<1>3. QED
  BY <1>2, Inductive, PTL
=============================================================================
