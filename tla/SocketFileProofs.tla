---------------------------- MODULE SocketFileProofs ----------------------------
(***************************************************************************)
(* That a server which serves can be reached at its path, for any number   *)
(* of servers and clients: the file there is its own from bind() to        *)
(* unlink(), unless the user has deleted that.                             *)
(***************************************************************************)
EXTENDS SocketFile, TLAPS

States == Idle \cup {"bound", "serving", "closed", "unlinked"}

Types ==
  /\ file \in Servers \cup {NoFile}
  /\ pc \in [Servers -> States]
  /\ conn \in [Clients -> Servers \cup {NoFile}]
  /\ deleted \subseteq Servers

\* StaysReachable holds because it holds already when the server does not listen yet, and
\* until it has unlinked the file: that is why no bind() succeeds in the meantime, and why
\* no unlink() of another server hits the file, if that one has not lost its own before.
Owner == \A s \in Servers : HasBound(s) /\ s \notin deleted => file = s

FileInv == Types /\ Owner

LEMMA FileInit == Init => FileInv
  BY DEF Init, FileInv, Types, Owner, HasBound, States, Idle

LEMMA FileStep ==
  ASSUME FileInv, [Next]_vars
  PROVE  FileInv'
<1> USE NoFileAssumption DEF FileInv
<1>1. ASSUME NEW s \in Servers, Bind(s)
      PROVE  FileInv'
  <2> USE <1>1 DEF Bind, Goes
  <2>1. Types'
    BY DEF Types, States, Idle
  <2>2. Owner'
    BY DEF Types, Owner, HasBound
  <2> QED BY <2>1, <2>2
<1>2. ASSUME NEW s \in Servers, BindFails(s) \/ Listen(s) \/ Close(s)
      PROVE  FileInv'
  <2> USE <1>2 DEF BindFails, Listen, Close, Goes
  <2>1. Types'
    BY DEF Types, States, Idle
  <2>2. Owner'
    BY DEF Types, Owner, HasBound
  <2> QED BY <2>1, <2>2
<1>3. ASSUME NEW s \in Servers, Unlink(s)
      PROVE  FileInv'
  <2> USE <1>3 DEF Unlink, Goes
  <2>1. Types'
    BY DEF Types, States, Idle
  <2>2. Owner'
    \* Whose file is unlinked has lost it, be it the server's own or the next one's.
    <3> SUFFICES ASSUME NEW t \in Servers, HasBound(t)', t \notin deleted'
                 PROVE  FALSE
      BY DEF Owner
    <3>1. t # s /\ HasBound(t) /\ t \notin deleted
      BY DEF Types, HasBound
    <3>2. file = t
      BY <3>1 DEF Owner
    <3>3. s \in deleted
      BY <3>1, <3>2 DEF Owner, HasBound
    <3> QED BY <3>1, <3>2, <3>3
  <2> QED BY <2>1, <2>2
<1>4. ASSUME NEW s \in Servers, FinalTailers(s) \/ Kill(s)
      PROVE  FileInv'
  <2> USE <1>4 DEF FinalTailers, Kill, Goes, Disconnect
  <2>1. Types'
    BY DEF Types, States, Idle
  <2>2. Owner'
    BY DEF Types, Owner, HasBound
  <2> QED BY <2>1, <2>2
<1>5. CASE UserDeletes
  <2>1. Types'
    BY <1>5 DEF UserDeletes, Types
  <2>2. Owner'
    BY <1>5 DEF UserDeletes, Types, Owner, HasBound, Idle
  <2> QED BY <2>1, <2>2
<1>6. ASSUME NEW c \in Clients, Connect(c) \/ ClientLeaves(c)
      PROVE  FileInv'
  BY <1>6 DEF Connect, ClientLeaves, Types, Owner, HasBound, Idle
<1>7. CASE UNCHANGED vars
  BY <1>7 DEF vars, Types, Owner, HasBound
<1> QED BY <1>1, <1>2, <1>3, <1>4, <1>5, <1>6, <1>7 DEF Next, sockets_final

LEMMA FileInvAlways == Spec => []FileInv
  BY FileInit, FileStep, PTL DEF Spec

\* A server that serves has its file at the path, whatever other servers are started,
\* ended or killed there, unless its file was deleted.
THEOREM ServersAreReachable == Spec => []StaysReachable
<1>1. FileInv => StaysReachable
  BY DEF FileInv, Owner, HasBound, StaysReachable
<1> QED BY <1>1, FileInvAlways, PTL

\* What the comment before the unlink() that is commented out asks (sockets.c:375): only
\* the end of a server whose own file was deleted, by the user or by the like, can unlink
\* the file of a server that is running.
THEOREM FilesAreTakenOnceDeleted == Spec => TakenOnceDeleted
<1> DEFINE A == \A s, t \in Servers :
                  s # t /\ file = t /\ file' # t /\ HasBound(t) /\ pc'[s] # pc[s] =>
                    s \in deleted
<1>1. FileInv /\ [Next]_vars => [A]_vars
  <2> SUFFICES ASSUME FileInv, Next, NEW s \in Servers, NEW t \in Servers,
                      s # t, file = t, file' # t, HasBound(t), pc'[s] # pc[s]
               PROVE  s \in deleted
    OBVIOUS
  <2> USE NoFileAssumption
  <2>1. CASE \E u \in Servers : Unlink(u)
    <3>1. PICK u \in Servers : Unlink(u)
      BY <2>1
    <3>2. u = s
      BY <3>1 DEF Unlink, Goes, FileInv, Types
    <3> QED BY <3>1, <3>2 DEF Unlink, Goes, FileInv, Owner, HasBound
  <2>2. CASE UserDeletes
    BY <2>2 DEF UserDeletes
  <2>3. CASE \E u \in Servers : Bind(u) \/ BindFails(u) \/ Listen(u) \/ Close(u)
                                \/ FinalTailers(u) \/ Kill(u)
    BY <2>3 DEF Bind, BindFails, Listen, Close, FinalTailers, Kill
  <2>4. CASE \E c \in Clients : Connect(c) \/ ClientLeaves(c)
    BY <2>4 DEF Connect, ClientLeaves
  <2> QED BY <2>1, <2>2, <2>3, <2>4 DEF Next, sockets_final
<1> QED BY <1>1, FileInvAlways, PTL DEF Spec, TakenOnceDeleted
=================================================================================
