---------------------------- MODULE BindingStore ----------------------------
(***************************************************************************)
(* The in-memory binding store of the Telegram bot                         *)
(* (telegram/tmux-bot/src/lib/store/bindings.ts): which tmux session,      *)
(* directory and opencode session a conversation drives, and the reverse   *)
(* index from opencode session to conversation.  Operators on a store      *)
(* value; the modules that hold one decide when they are applied.          *)
(***************************************************************************)
EXTENDS Naturals, FiniteSets

CONSTANTS
  Conv,      \* conversations: (chat, thread) pairs
  Name,      \* tmux session names
  Dir,       \* project directories
  Session,   \* opencode session ids
  None       \* null, or no entry

Binding == [tmuxSession: Name, directory: Dir, opencodeSession: Session \cup {None}]

ASSUME NoneAssumption == None \notin Conv \cup Name \cup Dir \cup Session \cup Binding

Bindings == [Conv -> Binding \cup {None}]
Store == [bindings: Bindings, byOpencodeSession: [Session -> Conv \cup {None}]]

EmptyBindings == [c \in Conv |-> None]

\* The opencode session of conversation c, if it has one.
SessionOf(bindings, c) ==
  IF bindings[c] = None THEN None ELSE bindings[c].opencodeSession

\* Plausible bug: the session that is replaced stays in the index.
PutKeepsOld(store, c, binding) ==
  [bindings |-> [store.bindings EXCEPT ![c] = binding],
   byOpencodeSession |->
     [s \in Session |-> IF s = binding.opencodeSession THEN c
                        ELSE store.byOpencodeSession[s]]]

\* Plausible bug: the old session is unindexed after the new one is indexed.
PutUnindexesLast(store, c, binding) ==
  LET old == SessionOf(store.bindings, c)
      new == binding.opencodeSession
  IN [bindings |-> [store.bindings EXCEPT ![c] = binding],
      byOpencodeSession |->
        [s \in Session |-> IF s = old THEN None
                           ELSE IF s = new THEN c
                           ELSE store.byOpencodeSession[s]]]

\* unindex(existing); bindings.set; byOpencodeSession.set
Put(store, c, binding) ==
  LET old == SessionOf(store.bindings, c)
      new == binding.opencodeSession
  IN [bindings |-> [store.bindings EXCEPT ![c] = binding],
      byOpencodeSession |->
        [s \in Session |-> IF s = new THEN c
                           ELSE IF s = old THEN None
                           ELSE store.byOpencodeSession[s]]]

\* upsert, as its only caller uses it: the session is always given.
Upsert(store, c, name, dir, session) ==
  Put(store, c, [tmuxSession |-> name, directory |-> dir, opencodeSession |-> session])

\* A conversation that is not bound is left alone.
SetOpencodeSession(store, c, session) ==
  IF store.bindings[c] = None THEN store
  ELSE Put(store, c, [store.bindings[c] EXCEPT !.opencodeSession = session])

\* Start-up: every binding of the file is put in turn.
LoadStore(bindings) ==
  [bindings |-> bindings,
   byOpencodeSession |->
     [s \in Session |->
        IF \E c \in Conv : SessionOf(bindings, c) = s
          THEN CHOOSE c \in Conv : SessionOf(bindings, c) = s
          ELSE None]]

\* Events of a session reach exactly the conversation that is bound to it.
Coherent(store) ==
  \A s \in Session, c \in Conv :
    store.byOpencodeSession[s] = c <=> SessionOf(store.bindings, c) = s

\* No two conversations of a list share a session.
SessionsDistinct(bindings) ==
  \A c, d \in Conv :
    SessionOf(bindings, c) = SessionOf(bindings, d) /\ SessionOf(bindings, c) # None
      => c = d
=============================================================================
