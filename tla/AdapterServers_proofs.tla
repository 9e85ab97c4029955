------------------------ MODULE AdapterServers_proofs ------------------------
(***************************************************************************)
(* Proofs about AdapterServers, for every number of connections, sessions, *)
(* "attach" requests and timers.                                           *)
(***************************************************************************)
EXTENDS AdapterServers, SequenceLemmas

(* A thread has in its hand what its next step needs: the accept thread a  *)
(* connection, a disconnect() handler its session, "attach" what it found. *)
HandInv ==
    /\ accept.pc \in {"init", "notify"} => accept.conn \in Conns
    /\ \A c \in Conns :
          conn[c].pc \in {"server", "via_server", "session", "unblock", "detach"}
          => conn[c].owner \in Sess
    /\ \A s \in Sess : sess[s].pc = "attach" => sess[s].found \in Conns

TypeInv == TypeOK /\ HandInv

(* An IDE that waits for a server, asks it, or finalizes, has its session  *)
(* locked;                                                                 *)
(* it waits only while it is connected and its session has no server.      *)
BusyInv ==
    \A s \in Sess :
        /\ sess[s].pc \in {"search", "gap", "asleep", "attach"}
           => sess[s].ide = "yes" /\ sess[s].lock = "ide" /\ sess[s].srv = "none"
        /\ sess[s].pc = "request" => sess[s].lock = "ide"
        /\ sess[s].pc \in {"unblock", "disconnect", "detach"}
           => sess[s].lock = "ide" /\ sess[s].finalizing
        /\ sess[s].ide = "new" => sess[s].pc \in {"idle", "dead"} /\ sess[s].srv = "none"

(* The Server whose disconnect() runs is the one its connection belongs    *)
(* to, or its session is finalized by someone else; the handler that       *)
(* finalizes keeps what it locks until it is done.                         *)
OwnerOK(c) ==
    /\ conn[c].server # None => sess[conn[c].server].srv # "none"
    /\ conn[c].pc \in {"server", "session"} =>
          /\ conn[c].server = conn[c].owner \/ sess[conn[c].owner].finalizing
          /\ sess[conn[c].owner].srv # "none"
    /\ conn[c].pc = "via_server" => conn[c].server = conn[c].owner /\ lock = c
    /\ conn[c].pc \in {"unblock", "detach"} =>
          /\ conn[c].server = conn[c].owner
          /\ sess[conn[c].owner].srv = "no" /\ sess[conn[c].owner].lock = c

OwnerInv == \A c \in Conns : OwnerOK(c)

(* A connection that is not listed yet belongs to no one and has not been  *)
(* found; one that was found stays listed until it disconnects.            *)
Fresh(c) == conn[c].link = "new" \/ (accept.pc = "init" /\ accept.conn = c)
Found(c) == conn[c].server # None \/ \E s \in Sess : sess[s].found = c

FreshInv ==
    /\ accept.pc = "init" => conn[accept.conn].link # "new"
    /\ \A c \in Conns :
        /\ Fresh(c) =>
              /\ c \notin ToSet(listed) /\ ~Found(c)
              /\ conn[c].pc \in {"none", "connection", "done", "dead"}
              /\ conn[c].pc = "done" => conn[c].disconnected
        /\ Found(c) /\ conn[c].pc \in {"none", "connection"} => c \in ToSet(listed)

-----------------------------------------------------------------------------
(* Types. *)

(* The initial state has its types. *)
LEMMA InitTypeInv == Init => TypeInv
<1> SUFFICES ASSUME Init PROVE TypeInv
  OBVIOUS
<1>1. listed \in Seq(Conns)
  BY EmptySeq DEF Init
<1>2. conn \in [Conns -> ConnStates]
  BY DEF Init, ConnStates
<1>3. sess \in [Sess -> SessStates]
  BY ServersConstants DEF Init, SessStates
<1>4. QED
  BY <1>1, <1>2, <1>3 DEF Init, TypeInv, TypeOK, HandInv

(* The steps of the accept thread keep the types, ... *)
LEMMA AcceptTypes ==
    TypeInv /\ ((\E c \in Conns : Accept(c) \/ ServerGoes(c)) \/ AcceptStep) => TypeInv'
<1> SUFFICES ASSUME TypeInv, (\E c \in Conns : Accept(c) \/ ServerGoes(c)) \/ AcceptStep
             PROVE  TypeInv'
  OBVIOUS
<1> USE DEF TypeInv, TypeOK, HandInv, mains
<1>1. ASSUME NEW c \in Conns, Accept(c) PROVE TypeInv'
  <2>1. conn' \in [Conns -> ConnStates]
    BY ZenonT(60), <1>1 DEF Accept, ConnStates
  <2>2. QED
    BY <1>1, <2>1 DEF Accept
<1>2. ASSUME NEW c \in Conns, ServerGoes(c) PROVE TypeInv'
  <2>1. conn' \in [Conns -> ConnStates]
    BY <1>2 DEF ServerGoes, ConnStates
  <2>2. QED
    BY <1>2, <2>1 DEF ServerGoes
<1>3. CASE InitFails
  <2>1. accept.conn \in Conns
    BY <1>3 DEF InitFails
  <2>2. conn' = [conn EXCEPT ![accept.conn].link = "down"]
    BY <1>3 DEF InitFails
  <2>3. conn' \in [Conns -> ConnStates] /\ \A c \in Conns : conn'[c].pc = conn[c].pc
                                                    /\ conn'[c].owner = conn[c].owner
    BY <2>1, <2>2 DEF ConnStates
  <2>4. /\ accept'.pc = "accept"
        /\ accept' \in [pc : {"accept", "init", "notify", "dead"}, conn : Conns \cup {None},
                        parent : Sess \cup {None}]
    BY <1>3 DEF InitFails
  <2>5. QED
    BY <1>3, <2>3, <2>4 DEF InitFails, Release, SetChanged
<1>4. CASE Register
  <2>1. accept.conn \in Conns
    BY <1>4 DEF Register
  <2>2. listed' \in Seq(Conns)
    <3>1. Append(listed, accept.conn) \in Seq(Conns)
      BY <2>1, AppendProperties
    <3>2. listed' \in {listed, Append(listed, accept.conn)}
      BY <1>4 DEF Register, Entry
    <3>3. QED
      BY <3>1, <3>2
  <2>3. /\ accept'.pc \in {"accept", "notify"} /\ accept'.conn = accept.conn
        /\ accept' \in [pc : {"accept", "init", "notify", "dead"}, conn : Conns \cup {None},
                        parent : Sess \cup {None}]
    BY <1>4 DEF Register
  <2>4. QED
    BY <1>4, <2>1, <2>2, <2>3 DEF Register, SetChanged
<1>5. CASE Notify
  BY <1>5 DEF Notify
<1>6. QED
  BY <1>1, <1>2, <1>3, <1>4, <1>5 DEF AcceptStep

(* ... those of the handlers of a connection do, ... *)
LEMMA ConnTypes == TypeInv /\ (\E c \in Conns : ConnStep(c)) => TypeInv'
<1> SUFFICES ASSUME TypeInv, NEW c \in Conns, ConnStep(c)
             PROVE  TypeInv'
  OBVIOUS
<1> USE DEF TypeInv, TypeOK, HandInv, mains, NotifyChanged, Release, SetChanged
<1>1. RemoveFirst(listed, c) \in Seq(Conns)
  BY RemoveType
<1>2. conn[c] \in ConnStates /\ conn[c].server \in Sess \cup {None}
  BY DEF ConnStates
<1>3. CASE BeginDisconnect(c)
  <2>1. PICK p \in {"connection", "server"}, o \in Sess \cup {None} :
            /\ conn' = [conn EXCEPT ![c].pc = p, ![c].owner = o]
            /\ p = "server" => o \in Sess
    BY <1>2, <1>3 DEF BeginDisconnect
  <2>2. conn' \in [Conns -> ConnStates]
    BY <1>2, <2>1 DEF ConnStates
  <2>3. QED
    BY <1>2, <1>3, <2>1, <2>2 DEF BeginDisconnect, ConnStates
<1>4. CASE ConnectionDisconnect(c)
  <2>1. PICK p \in {"done", "via_server"}, o \in Sess \cup {None} :
            /\ conn' = [conn EXCEPT ![c].disconnected = TRUE, ![c].pc = p, ![c].owner = o]
            /\ p = "via_server" => o \in Sess
    <3>1. CASE conn[c].server = None
      <4>1. conn' = [conn EXCEPT ![c].disconnected = TRUE, ![c].pc = "done"]
        BY <1>4, <3>1 DEF ConnectionDisconnect
      <4>2. conn[c].owner \in Sess \cup {None}
        BY <1>2 DEF ConnStates
      <4>3. conn' = [conn EXCEPT ![c].disconnected = TRUE, ![c].pc = "done",
                                 ![c].owner = conn[c].owner]
        BY <1>2, <4>1 DEF ConnStates
      <4>4. QED
        BY <4>2, <4>3
    <3>2. CASE conn[c].server # None
      BY <1>2, <1>4, <3>2 DEF ConnectionDisconnect
    <3>3. QED
      BY <3>1, <3>2
  <2>2. conn' \in [Conns -> ConnStates]
    BY <1>2, <2>1 DEF ConnStates
  <2>3. listed' \in Seq(Conns) /\ lock' \in Conns \cup {None}
    BY <1>1, <1>4 DEF ConnectionDisconnect, Delist
  <2>4. flag' \in BOOLEAN /\ asleep' \subseteq Sess \cup {Main}
    BY <1>4 DEF ConnectionDisconnect
  <2>5. QED
    BY <1>2, <1>4, <2>1, <2>2, <2>3, <2>4 DEF ConnectionDisconnect, ConnStates
<1>5. CASE ViaServer(c)
  <2>1. PICK v \in Sess \cup {None} : conn' = [conn EXCEPT ![c].pc = "done", ![c].server = v]
    BY <1>2, <1>5 DEF ViaServer
  <2>2. conn' \in [Conns -> ConnStates]
    BY <1>2, <2>1 DEF ConnStates
  <2>3. PICK s \in Sess : sess' = [sess EXCEPT ![s].srv = "no", ![s].finalizing = TRUE]
    BY <1>5 DEF ViaServer
  <2>4. sess' \in [Sess -> SessStates]
    <3>1. sess[s] \in SessStates
      OBVIOUS
    <3>2. QED
      BY <2>3, <3>1 DEF SessStates
  <2>5. flag' \in BOOLEAN /\ asleep' \subseteq Sess \cup {Main}
    BY <1>5 DEF ViaServer
  <2>6. registered' \subseteq Sess /\ sflag' \in BOOLEAN
    BY <1>5, Zenon DEF ViaServer, Ends
  <2>7. \A d \in Conns : conn'[d].owner = conn[d].owner
                      /\ (conn'[d].pc = conn[d].pc \/ d = c)
    BY <1>2, <2>1 DEF ConnStates
  <2>8. \A t \in Sess : sess'[t].pc = sess[t].pc /\ sess'[t].found = sess[t].found
    BY <2>3 DEF SessStates
  <2>9. conn[c].owner \in Sess /\ accept' = accept /\ listed' = listed /\ lock' = None
        /\ mpc' = mpc /\ timers' = timers
    BY <1>5 DEF ViaServer
  <2>10. QED
    BY <2>2, <2>4, <2>5, <2>6, <2>7, <2>8, <2>9
<1>6. CASE ServerDisconnect(c)
  <2>1. conn' \in [Conns -> ConnStates]
    BY ZenonT(60), <1>6 DEF ServerDisconnect, ConnStates
  <2>2. QED
    BY <1>1, <1>6, <2>1 DEF ServerDisconnect, ConnStates, Delist
<1>7. CASE SessionDisconnect(c)
  <2>1. PICK p \in {"unblock", "done"} : conn' = [conn EXCEPT ![c].pc = p]
    BY <1>7 DEF SessionDisconnect
  <2>2. conn' \in [Conns -> ConnStates]
    BY <1>2, <2>1 DEF ConnStates
  <2>3. PICK s \in Sess, l \in {c, None} :
            sess' = [sess EXCEPT ![s].srv = "no", ![s].finalizing = TRUE, ![s].lock = l]
    BY <1>7 DEF SessionDisconnect
  <2>4. sess' \in [Sess -> SessStates]
    <3>1. sess[s] \in SessStates
      OBVIOUS
    <3>2. QED
      BY ZenonT(60), <2>3, <3>1 DEF SessStates
  <2>5. registered' \subseteq Sess /\ sflag' \in BOOLEAN
    BY <1>7, Zenon DEF SessionDisconnect, Ends
  <2>6. \A d \in Conns : conn'[d].owner = conn[d].owner
                      /\ (conn'[d].pc = conn[d].pc \/ d = c)
    BY <1>2, <2>1 DEF ConnStates
  <2>7. \A t \in Sess : sess'[t].pc = sess[t].pc /\ sess'[t].found = sess[t].found
    BY <2>3 DEF SessStates
  <2>8. conn[c].owner \in Sess
    BY <1>7 DEF SessionDisconnect
  <2>9. QED
    BY ZenonT(60), <1>7, <2>2, <2>4, <2>5, <2>6, <2>7, <2>8 DEF SessionDisconnect
<1>8. CASE ServerUnblocks(c)
  <2>1. conn' \in [Conns -> ConnStates]
    BY ZenonT(60), <1>8 DEF ServerUnblocks, ConnStates
  <2>2. QED
    BY <1>8, <2>1 DEF ServerUnblocks, ConnStates
<1>9. CASE ServerDetaches(c)
  <2>1. conn' \in [Conns -> ConnStates] /\ \A d \in Conns : conn'[d].owner = conn[d].owner
                      /\ (conn'[d].pc = conn[d].pc \/ conn'[d].pc = "done")
    BY <1>2, <1>9 DEF ServerDetaches, ConnStates
  <2>2. PICK s \in Sess : sess' = [sess EXCEPT ![s].lock = None]
    BY <1>9 DEF ServerDetaches
  <2>3. sess' \in [Sess -> SessStates]
    <3>1. sess[s] \in SessStates
      OBVIOUS
    <3>2. QED
      BY <2>2, <3>1 DEF SessStates
  <2>4. \A t \in Sess : sess'[t].pc = sess[t].pc /\ sess'[t].found = sess[t].found
    BY <2>2 DEF SessStates
  <2>5. QED
    BY <1>9, <2>1, <2>3, <2>4 DEF ServerDetaches
<1>10. QED
  BY <1>3, <1>4, <1>5, <1>6, <1>7, <1>8, <1>9 DEF ConnStep
(* What the IDE's handler thread does to its session alone. *)
IdeAlone(s) ==
    \/ IdeConnects(s) \/ IdeLeaves(s) \/ TimeOut(s)
    \/ \E P \in SUBSET Conns, w \in Waits : BeginAttach(s, P, w)
    \/ Search(s) \/ EventWait(s) \/ Wakes(s)
    \/ DelegateRequest(s) \/ RequestEnds(s)

(* The connection that wait_for_connection() returns is one of the list    *)
(* that the predicate accepts.                                             *)
LEMMA OldestIsListed ==
    ASSUME TypeOK, NEW s \in Sess, Matches(s)
    PROVE  /\ Oldest(s) \in 1..Len(listed)
           /\ listed[Oldest(s)] \in sess[s].want
<1> DEFINE I == {i \in 1..Len(listed) : listed[i] \in sess[s].want}
<1>1. Oldest(s) = IF I # {} THEN Min(I) ELSE 0
  BY DEF Oldest, SelectInSeq
<1>2. I \in SUBSET (1..Len(listed)) /\ I # {}
  BY <1>1 DEF Matches
<1>3. Min(I) \in I
  BY <1>2, LeastPlace DEF TypeOK
<1>4. QED
  BY <1>1, <1>2, <1>3

(* ... those of an IDE that touch no other part of the adapter, ... *)
LEMMA IdeAloneTypes == TypeInv /\ (\E s \in Sess : IdeAlone(s)) => TypeInv'
<1> SUFFICES ASSUME TypeInv, NEW s \in Sess, IdeAlone(s)
             PROVE  TypeInv'
  OBVIOUS
<1> USE DEF TypeInv, TypeOK, HandInv, mains, Clear
<1>1. sess[s] \in SessStates
  OBVIOUS
<1>2. CASE IdeConnects(s)
  <2>1. sess' \in [Sess -> SessStates]
        /\ \A t \in Sess : sess'[t].pc = sess[t].pc /\ sess'[t].found = sess[t].found
    BY <1>1, <1>2 DEF IdeConnects, SessStates
  <2>2. QED
    BY <1>2, <2>1 DEF IdeConnects
<1>3. CASE IdeLeaves(s)
  <2>1. sess' \in [Sess -> SessStates]
        /\ \A t \in Sess : sess'[t].pc = sess[t].pc /\ sess'[t].found = sess[t].found
    BY <1>1, <1>3 DEF IdeLeaves, SessStates
  <2>2. QED
    BY <1>3, <2>1 DEF IdeLeaves
<1>4. CASE TimeOut(s)
  <2>1. sess' \in [Sess -> SessStates]
        /\ \A t \in Sess : sess'[t].pc = sess[t].pc /\ sess'[t].found = sess[t].found
    BY <1>1, <1>4 DEF TimeOut, SessStates
  <2>2. timers' \in Nat
    BY <1>4 DEF TimeOut
  <2>3. QED
    BY <1>4, <2>1, <2>2 DEF TimeOut
<1>5. ASSUME NEW P \in SUBSET Conns, NEW w \in Waits, BeginAttach(s, P, w)
      PROVE  TypeInv'
  <2>1. PICK b \in BOOLEAN, n \in 0..MaxAttach :
            sess' = [sess EXCEPT ![s].pc = "search", ![s].lock = "ide", ![s].want = P,
                                 ![s].wait = w, ![s].timedOut = b, ![s].attaches = n]
    <3>1. sess[s].attaches \in 0..MaxAttach /\ sess[s].attaches < MaxAttach
      BY <1>1, <1>5 DEF BeginAttach, SessStates
    <3>2. sess[s].attaches + 1 \in 0..MaxAttach /\ (w = "no_wait") \in BOOLEAN
      BY <3>1, ServersConstants
    <3>3. QED
      BY <1>1, <1>5, <3>2 DEF BeginAttach, SessStates
  <2>2. sess' \in [Sess -> SessStates]
    BY ZenonT(60), <1>1, <2>1 DEF SessStates
  <2>3. \A t \in Sess : sess'[t].found = sess[t].found
                     /\ (sess'[t].pc = sess[t].pc \/ sess'[t].pc = "search")
    BY <1>1, <2>1 DEF SessStates
  <2>4. QED
    BY <1>5, <2>2, <2>3 DEF BeginAttach
<1>6. CASE Search(s)
  <2>1. PICK p \in {"attach", "gap"}, f \in Conns \cup {None}, w \in Waits \cup {None} :
            /\ sess' = [sess EXCEPT ![s].pc = p, ![s].found = f, ![s].wait = w]
            /\ p = "attach" => f \in Conns
    <3>1. CASE Matches(s) /\ sess' = [sess EXCEPT ![s].pc = "attach",
                                 ![s].found = listed[Oldest(s)], ![s].wait = None]
      <4>1. Oldest(s) \in 1..Len(listed) /\ listed[Oldest(s)] \in sess[s].want
        BY <3>1, OldestIsListed
      <4>2. listed[Oldest(s)] \in Conns
        BY <4>1, ElementOfSeq
      <4>3. QED
        BY <3>1, <4>2
    <3>2. CASE sess' = [sess EXCEPT ![s].pc = "gap"]
      <4>1. sess[s].found \in Conns \cup {None} /\ sess[s].wait \in Waits \cup {None}
        BY <1>1 DEF SessStates
      <4>2. sess' = [sess EXCEPT ![s].pc = "gap", ![s].found = sess[s].found,
                                 ![s].wait = sess[s].wait]
        BY <1>1, <3>2 DEF SessStates
      <4>3. QED
        BY <4>1, <4>2
    <3>3. QED
      BY <1>6, <3>1, <3>2 DEF Search
  <2>2. sess' \in [Sess -> SessStates]
    BY ZenonT(60), <1>1, <2>1 DEF SessStates
  <2>3. \A t \in Sess : sess'[t].pc = "attach" => sess'[t].found \in Conns
    BY <1>1, <2>1 DEF SessStates
  <2>4. timers' \in Nat
    BY <1>6 DEF Search
  <2>5. UNCHANGED <<listed, lock, mpc, registered, sflag, accept, conn, asleep>> /\ flag' = FALSE
    BY <1>6 DEF Search
  <2>6. QED
    BY <2>2, <2>3, <2>4, <2>5
<1>7. CASE EventWait(s)
  <2>1. PICK p \in {"search", "asleep"} : sess' = [sess EXCEPT ![s].pc = p]
    BY <1>7 DEF EventWait
  <2>2. sess' \in [Sess -> SessStates]
    BY ZenonT(60), <1>1, <2>1 DEF SessStates
  <2>3. \A t \in Sess : sess'[t].pc = "attach" => sess'[t].found \in Conns
    BY <1>1, <2>1 DEF SessStates
  <2>4. QED
    BY <1>7, <2>2, <2>3 DEF EventWait
<1>8. CASE Wakes(s)
  <2>1. sess' = [sess EXCEPT ![s].pc = "search"]
    BY <1>8 DEF Wakes
  <2>2. sess' \in [Sess -> SessStates]
    BY ZenonT(60), <1>1, <2>1 DEF SessStates
  <2>3. \A t \in Sess : sess'[t].pc = "attach" => sess'[t].found \in Conns
    BY <1>1, <2>1 DEF SessStates
  <2>4. QED
    BY <1>8, <2>2, <2>3 DEF Wakes
<1>9. CASE DelegateRequest(s)
  <2>1. sess' = [sess EXCEPT ![s].pc = "request", ![s].lock = "ide"]
    BY <1>9 DEF DelegateRequest
  <2>2. sess' \in [Sess -> SessStates]
    BY ZenonT(60), <1>1, <2>1 DEF SessStates
  <2>3. \A t \in Sess : sess'[t].pc = "attach" => sess'[t].found \in Conns
    BY <1>1, <2>1 DEF SessStates
  <2>4. QED
    BY <1>9, <2>2, <2>3 DEF DelegateRequest
<1>10. CASE RequestEnds(s)
  <2>1. \/ sess' = [sess EXCEPT ![s].pc = "idle", ![s].lock = None]
        \/ sess' = [sess EXCEPT ![s].pc = "detach"]
    BY <1>10 DEF RequestEnds
  <2>2. CASE sess' = [sess EXCEPT ![s].pc = "idle", ![s].lock = None]
    <3>1. sess' \in [Sess -> SessStates]
      BY ZenonT(60), <1>1, <2>2 DEF SessStates
    <3>2. \A t \in Sess : sess'[t].pc = "attach" => sess'[t].found \in Conns
      BY <1>1, <2>2 DEF SessStates
    <3>3. QED
      BY <1>10, <3>1, <3>2 DEF RequestEnds
  <2>3. CASE sess' = [sess EXCEPT ![s].pc = "detach"]
    <3>1. sess' \in [Sess -> SessStates]
      BY ZenonT(60), <1>1, <2>3 DEF SessStates
    <3>2. \A t \in Sess : sess'[t].pc = "attach" => sess'[t].found \in Conns
      BY <1>1, <2>3 DEF SessStates
    <3>3. QED
      BY <1>10, <3>1, <3>2 DEF RequestEnds
  <2>4. QED
    BY <2>1, <2>2, <2>3
<1>11. QED
  BY <1>2, <1>3, <1>4, <1>5, <1>6, <1>7, <1>8, <1>9, <1>10 DEF IdeAlone

(* The end of the process, and what the IDE's thread does with a server.   *)
LEMMA ExitTypes == TypeInv /\ (\E s \in Sess : SearchFails(s) \/ AttachFails(s)) => TypeInv'
<1> SUFFICES ASSUME TypeInv, ProcessExits, UNCHANGED <<listed, lock, registered, sflag>>,
                    flag' \in BOOLEAN, asleep' = asleep
             PROVE  TypeInv'
  BY DEF SearchFails, AttachFails, Clear, TypeInv, TypeOK
<1> USE DEF TypeInv, TypeOK, HandInv
<1>1. conn' \in [Conns -> ConnStates] /\ \A c \in Conns : conn'[c].pc = "dead"
  <2>1. ASSUME NEW c \in Conns
        PROVE  LET r == [conn[c] EXCEPT !.pc = "dead"] IN r \in ConnStates /\ r.pc = "dead"
    <3>1. conn[c] \in ConnStates
      OBVIOUS
    <3>2. QED
      BY <3>1 DEF ConnStates
  <2>2. QED
    BY <2>1 DEF ProcessExits
<1>2. sess' \in [Sess -> SessStates] /\ \A s \in Sess : sess'[s].pc = "dead"
  <2>1. ASSUME NEW s \in Sess
        PROVE  LET r == [sess[s] EXCEPT !.pc = "dead", !.wait = None]
               IN  r \in SessStates /\ r.pc = "dead"
    <3>1. sess[s] \in SessStates
      OBVIOUS
    <3>2. QED
      BY <3>1 DEF SessStates
  <2>2. QED
    BY <2>1 DEF ProcessExits
<1>3. QED
  BY <1>1, <1>2 DEF ProcessExits

(* ... those that attach to a server, or finalize a session, ... *)
LEMMA IdeServerTypes ==
    TypeInv /\ (\E s \in Sess : AttachServer(s) \/ DisconnectRequest(s) \/ IdeDisconnect(s)
                             \/ IdeUnblocks(s) \/ IdeDetaches(s)) => TypeInv'
<1> SUFFICES ASSUME TypeInv, NEW s \in Sess,
                    AttachServer(s) \/ DisconnectRequest(s) \/ IdeDisconnect(s)
                    \/ IdeUnblocks(s) \/ IdeDetaches(s)
             PROVE  TypeInv'
  OBVIOUS
<1> USE DEF TypeInv, TypeOK, HandInv, mains, NotifyChanged, Release, SetChanged
<1>1. sess[s] \in SessStates
  OBVIOUS
<1>2. CASE AttachServer(s)
  <2>1. sess[s].found \in Conns
    BY <1>2 DEF AttachServer
  <2>2. PICK c \in Conns : conn' = [conn EXCEPT ![c].server = s]
    BY <1>2, <2>1 DEF AttachServer
  <2>3. conn' \in [Conns -> ConnStates] /\ \A d \in Conns : conn'[d].owner = conn[d].owner
                                                         /\ conn'[d].pc = conn[d].pc
    BY <2>2 DEF ConnStates
  <2>4. sess' \in [Sess -> SessStates]
        /\ \A t \in Sess : sess'[t].pc = "attach" => sess'[t].found \in Conns
    BY SMTT(30), <1>1, <1>2 DEF AttachServer, SessStates
  <2>5. QED
    BY <1>2, <2>3, <2>4 DEF AttachServer
<1>3. ASSUME NEW i \in {"yes", "no"}, IdeFinalizes(s, i) PROVE TypeInv'
  <2>1. PICK l \in {None, "ide"}, p \in {"idle", "unblock"} :
            sess' = [sess EXCEPT ![s].ide = i, ![s].finalizing = TRUE,
                                 ![s].lock = l, ![s].pc = p]
    BY <1>3 DEF IdeFinalizes
  <2>2. sess' \in [Sess -> SessStates]
        /\ \A t \in Sess : sess'[t].pc = "attach" => sess'[t].found \in Conns
    BY ZenonT(60), <1>1, <2>1 DEF SessStates
  <2>3. registered' \subseteq Sess /\ sflag' \in BOOLEAN
    BY <1>3, Zenon DEF IdeFinalizes, Ends
  <2>4. QED
    BY <1>3, <2>2, <2>3 DEF IdeFinalizes
<1>4. CASE IdeUnblocks(s)
  <2>1. PICK p \in {"idle", "disconnect", "detach"}, l \in Conns \cup {None, "ide"} :
            sess' = [sess EXCEPT ![s].pc = p, ![s].lock = l]
    <3>1. CASE sess' = [sess EXCEPT ![s].pc = "idle", ![s].lock = None]
      BY <3>1
    <3>2. CASE sess[s].srv # "none"
      <4>1. sess[s].lock \in Conns \cup {None, "ide"}
        BY <1>1 DEF SessStates
      <4>2. PICK p \in {"disconnect", "detach"} : sess' = [sess EXCEPT ![s].pc = p]
        BY <1>4, <3>2 DEF IdeUnblocks
      <4>3. sess' = [sess EXCEPT ![s].pc = p, ![s].lock = sess[s].lock]
        BY <1>1, <4>2 DEF SessStates
      <4>4. QED
        BY <4>1, <4>3
    <3>3. QED
      BY <1>4, <3>1, <3>2 DEF IdeUnblocks
  <2>2. sess' \in [Sess -> SessStates]
        /\ \A t \in Sess : sess'[t].pc = "attach" => sess'[t].found \in Conns
    BY ZenonT(60), <1>1, <2>1 DEF SessStates
  <2>3. QED
    BY <1>4, <2>2 DEF IdeUnblocks
<1>5. CASE IdeDetaches(s)
  <2>1. sess' \in [Sess -> SessStates]
        /\ \A t \in Sess : sess'[t].pc = "attach" => sess'[t].found \in Conns
    BY ZenonT(60), <1>1, <1>5 DEF IdeDetaches, SessStates
  <2>2. conn' \in [Conns -> ConnStates] /\ \A d \in Conns : conn'[d].owner = conn[d].owner
                                                         /\ conn'[d].pc = conn[d].pc
    BY <1>5 DEF IdeDetaches, ConnStates
  <2>3. registered' \subseteq Sess /\ sflag' \in BOOLEAN
    BY <1>5, Zenon DEF IdeDetaches, Ends
  <2>4. QED
    BY <1>5, <2>1, <2>2, <2>3 DEF IdeDetaches
<1>6. QED
  BY <1>2, <1>3, <1>4, <1>5 DEF DisconnectRequest, IdeDisconnect

(* ... and those of the timers and of the main thread. *)
LEMMA MainTypes == TypeInv /\ (TimerSets \/ MainStep) => TypeInv'
<1> USE DEF TypeInv, TypeOK, HandInv, mains
<1>1. TypeInv /\ TimerSets => TypeInv'
  BY DEF TimerSets, SetChanged
<1>2. TypeInv /\ MainStep => TypeInv'
  BY DEF MainStep, MainWaits, MainWakes, MainChecks, MainAwaitsSessions, Clear
<1>3. QED
  BY <1>1, <1>2

(* The steps, in the groups in which the lemmas take them. *)
LEMMA StepCases ==
    [Next]_vars =>
        \/ (\E c \in Conns : Accept(c) \/ ServerGoes(c)) \/ AcceptStep
        \/ \E c \in Conns : ConnStep(c)
        \/ \E s \in Sess : IdeAlone(s)
        \/ \E s \in Sess : SearchFails(s) \/ AttachFails(s)
        \/ \E s \in Sess : AttachServer(s) \/ DisconnectRequest(s) \/ IdeDisconnect(s)
                        \/ IdeUnblocks(s) \/ IdeDetaches(s)
        \/ TimerSets \/ MainStep
        \/ UNCHANGED vars
  BY Zenon DEF Next, IdeStep, IdeAlone, RequestAnswered, RequestLost

(* Every step keeps the types. *)
LEMMA StepTypeInv == TypeInv /\ [Next]_vars => TypeInv'
<1>1. TypeInv /\ UNCHANGED vars => TypeInv'
  BY DEF TypeInv, TypeOK, HandInv, vars, mains
<1>2. QED
  BY <1>1, StepCases, AcceptTypes, ConnTypes, IdeAloneTypes, ExitTypes, IdeServerTypes, MainTypes
-----------------------------------------------------------------------------
(* The sessions. *)

IInv ==
    TypeInv /\ BusyInv /\ RegisteredWhileConnected
    /\ OwnerInv /\ OneServerEach /\ FreshInv /\ ListedAreLive

SessionsInv == BusyInv /\ RegisteredWhileConnected

(* What the invariant says of a session, and a step that leaves it alone.  *)
SessionOK(s) ==
    /\ sess[s].pc \in {"search", "gap", "asleep", "attach"}
       => sess[s].ide = "yes" /\ sess[s].lock = "ide" /\ sess[s].srv = "none"
    /\ sess[s].pc = "request" => sess[s].lock = "ide"
    /\ sess[s].pc \in {"unblock", "disconnect", "detach"}
       => sess[s].lock = "ide" /\ sess[s].finalizing
    /\ sess[s].ide = "new" => sess[s].pc \in {"idle", "dead"} /\ sess[s].srv = "none"
    /\ s \in registered <=> sess[s].ide = "yes" \/ sess[s].srv = "yes"

(* What is claimed of the sessions is claimed of each of them. *)
LEMMA SessionsByOne == SessionsInv <=> \A s \in Sess : SessionOK(s)
  BY DEF SessionsInv, BusyInv, RegisteredWhileConnected, SessionOK

(* A step that changes one session and keeps the claim for it keeps it for *)
(* all.                                                                    *)
LEMMA OneSession ==
    ASSUME IInv, NEW s \in Sess, \A t \in Sess \ {s} : sess'[t] = sess[t],
           \A t \in Sess \ {s} : t \in registered' <=> t \in registered,
           SessionOK(s)'
    PROVE  SessionsInv'
<1>1. \A t \in Sess : SessionOK(t)
  BY SessionsByOne DEF IInv, SessionsInv
<1>2. \A t \in Sess \ {s} : SessionOK(t)'
  BY <1>1 DEF SessionOK
<1>3. \A t \in Sess : SessionOK(t)'
  BY <1>2
<1>4. QED
  BY <1>3 DEF SessionsInv, BusyInv, RegisteredWhileConnected, SessionOK

(* A server that disconnects.  Its session is not locked by the IDE: it is *)
(* free when it is finalized, and the handler's own when it is detached.   *)
LEMMA ConnSessions == IInv /\ (\E c \in Conns : ConnStep(c)) => SessionsInv'
<1> SUFFICES ASSUME IInv, NEW c \in Conns, ConnStep(c)
             PROVE  SessionsInv'
  OBVIOUS
<1>1. TypeOK /\ HandInv /\ (\A t \in Sess : SessionOK(t)) /\ OwnerInv /\ sess \in [Sess -> SessStates]
  BY SessionsByOne DEF IInv, SessionsInv, TypeInv, TypeOK
<1>2. CASE UNCHANGED <<registered, sess>>
  BY <1>2 DEF IInv, SessionsInv, BusyInv, RegisteredWhileConnected
<1>3. CASE ViaServer(c)
  <2>1. PICK s \in Sess : /\ s = conn[c].owner
                          /\ sess[s] \in SessStates /\ sess[s].lock = None
                          /\ sess[s].srv # "none"
    <3>1. conn[c].owner \in Sess /\ conn[c].owner # None
      BY <1>1, <1>3, ServersConstants DEF ViaServer, HandInv
    <3>2. QED
      BY <1>1, <1>3, <3>1 DEF ViaServer, OwnerInv, OwnerOK
  <2>2. sess' = [sess EXCEPT ![s].srv = "no", ![s].finalizing = TRUE]
    BY <1>3, <2>1 DEF ViaServer
  <2>3. /\ sess'[s].srv = "no" /\ sess'[s].lock = None /\ sess'[s].pc = sess[s].pc
        /\ sess'[s].ide = sess[s].ide
        /\ \A t \in Sess \ {s} : sess'[t] = sess[t]
    BY SMTT(60), <1>1, <2>1, <2>2 DEF SessStates
  <2>4. registered' = IF Ends(s) THEN registered \ {s} ELSE registered
    BY <1>3, <2>1 DEF ViaServer, NotifyChanged
  <2>5. /\ sess[s].pc \notin {"search", "gap", "asleep", "attach", "request", "unblock",
                           "disconnect", "detach"}
        /\ sess[s].ide \in {"yes", "no"}
    BY <1>1, <2>1, ServersConstants DEF SessionOK, SessStates
  <2>6. s \in registered' <=> sess'[s].ide = "yes"
    BY <1>1, <2>1, <2>3, <2>4, <2>5 DEF SessionOK, Ends
  <2>7. SessionOK(s)'
    BY <2>3, <2>5, <2>6 DEF SessionOK
  <2>8. QED
    BY <2>1, <2>3, <2>4, <2>7, OneSession
<1>4. CASE SessionDisconnect(c)
  <2>1. PICK s \in Sess : /\ s = conn[c].owner
                          /\ sess[s] \in SessStates /\ sess[s].lock = None
                          /\ sess[s].srv # "none"
    BY <1>1, <1>4 DEF SessionDisconnect, HandInv, OwnerInv, OwnerOK
  <2>2. PICK l \in {c, None} :
            sess' = [sess EXCEPT ![s].srv = "no", ![s].finalizing = TRUE, ![s].lock = l]
    BY <1>4, <2>1 DEF SessionDisconnect
  <2>3. /\ sess'[s].srv = "no" /\ sess'[s].pc = sess[s].pc /\ sess'[s].ide = sess[s].ide
        /\ \A t \in Sess \ {s} : sess'[t] = sess[t]
    BY ZenonT(60), <1>1, <2>1, <2>2 DEF SessStates
  <2>4. registered' = IF Ends(s) THEN registered \ {s} ELSE registered
    BY <1>4, <2>1 DEF SessionDisconnect, NotifyChanged
  <2>5. /\ sess[s].pc \notin {"search", "gap", "asleep", "attach", "request", "unblock",
                           "disconnect", "detach"}
        /\ sess[s].ide \in {"yes", "no"}
    BY <1>1, <2>1, ServersConstants DEF SessionOK, SessStates
  <2>6. s \in registered' <=> sess'[s].ide = "yes"
    BY <1>1, <2>1, <2>3, <2>4, <2>5 DEF SessionOK, Ends
  <2>7. SessionOK(s)'
    BY <2>3, <2>5, <2>6 DEF SessionOK
  <2>8. QED
    BY <2>1, <2>3, <2>4, <2>7, OneSession
<1>5. CASE ServerDetaches(c)
  <2>1. PICK s \in Sess : /\ s = conn[c].owner
                          /\ sess[s] \in SessStates /\ sess[s].lock = c /\ c # "ide"
    BY <1>1, <1>5, ServersConstants DEF ServerDetaches, HandInv, OwnerInv, OwnerOK
  <2>2. sess' = [sess EXCEPT ![s].lock = None]
    BY <1>5, <2>1 DEF ServerDetaches
  <2>3. /\ sess'[s].srv = sess[s].srv /\ sess'[s].pc = sess[s].pc /\ sess'[s].ide = sess[s].ide
        /\ \A t \in Sess \ {s} : sess'[t] = sess[t]
    BY <1>1, <2>1, <2>2 DEF SessStates
  <2>4. registered' = registered
    BY <1>5 DEF ServerDetaches, mains
  <2>5. SessionOK(s)'
    BY <1>1, <2>1, <2>3, <2>4 DEF SessionOK
  <2>6. QED
    BY <2>1, <2>3, <2>4, <2>5, OneSession
<1>6. QED
  BY <1>2, <1>3, <1>4, <1>5
     DEF ConnStep, BeginDisconnect, ConnectionDisconnect, ServerDisconnect, ServerUnblocks, mains

(* The handlers of an IDE keep what is claimed of the sessions, ... *)
LEMMA IdeSessions ==
    IInv /\ (\E s \in Sess : IdeAlone(s) \/ AttachServer(s) \/ DisconnectRequest(s)
                          \/ IdeDisconnect(s) \/ IdeUnblocks(s) \/ IdeDetaches(s))
         => SessionsInv'
<1> SUFFICES ASSUME IInv, NEW s \in Sess,
                    IdeAlone(s) \/ AttachServer(s) \/ DisconnectRequest(s)
                    \/ IdeDisconnect(s) \/ IdeUnblocks(s) \/ IdeDetaches(s)
             PROVE  SessionsInv'
  OBVIOUS
<1>1. TypeOK /\ SessionOK(s) /\ sess \in [Sess -> SessStates] /\ sess[s] \in SessStates
  BY SessionsByOne DEF IInv, SessionsInv, TypeInv, TypeOK
<1> USE DEF mains
<1>2. ASSUME \A t \in Sess \ {s} : sess'[t] = sess[t] /\ (t \in registered' <=> t \in registered),
             SessionOK(s)'
      PROVE  SessionsInv'
  BY <1>2, OneSession
<1>3. CASE IdeConnects(s)
  <2>1. /\ sess'[s].ide = "yes" /\ sess'[s].pc = sess[s].pc /\ sess'[s].lock = sess[s].lock
        /\ sess'[s].srv = sess[s].srv /\ sess'[s].finalizing = sess[s].finalizing
        /\ \A t \in Sess \ {s} : sess'[t] = sess[t]
        /\ registered' = registered \cup {s}
    BY <1>1, <1>3 DEF IdeConnects, SessStates
  <2>2. QED
    BY <1>1, <1>2, <2>1 DEF SessionOK
<1>4. CASE IdeLeaves(s) \/ TimeOut(s)
  <2>1. /\ sess'[s].ide = sess[s].ide /\ sess'[s].pc = sess[s].pc /\ sess'[s].lock = sess[s].lock
        /\ sess'[s].srv = sess[s].srv /\ sess'[s].finalizing = sess[s].finalizing
        /\ \A t \in Sess \ {s} : sess'[t] = sess[t]
        /\ registered' = registered
    BY <1>1, <1>4 DEF IdeLeaves, TimeOut, SessStates
  <2>2. QED
    BY <1>1, <1>2, <2>1 DEF SessionOK
<1>5. ASSUME NEW P \in SUBSET Conns, NEW w \in Waits, BeginAttach(s, P, w) PROVE SessionsInv'
  <2>1. /\ sess'[s].pc = "search" /\ sess'[s].lock = "ide"
        /\ sess'[s].ide = sess[s].ide /\ sess'[s].srv = sess[s].srv
        /\ sess[s].ide = "yes" /\ sess[s].srv = "none"
        /\ \A t \in Sess \ {s} : sess'[t] = sess[t]
        /\ registered' = registered
    BY <1>1, <1>5 DEF BeginAttach, Free, SessStates
  <2>2. QED
    BY <1>1, <1>2, <2>1 DEF SessionOK
<1>6. CASE Search(s) \/ EventWait(s) \/ Wakes(s)
  <2>1. /\ sess[s].pc \in {"search", "gap", "asleep"}
        /\ sess'[s].pc \in {"attach", "gap", "asleep", "search"}
        /\ sess'[s].ide = sess[s].ide /\ sess'[s].lock = sess[s].lock
        /\ sess'[s].srv = sess[s].srv
        /\ \A t \in Sess \ {s} : sess'[t] = sess[t]
        /\ registered' = registered
    BY <1>1, <1>6 DEF Search, EventWait, Wakes, SessStates
  <2>2. QED
    BY <1>1, <1>2, <2>1 DEF SessionOK
<1>7. CASE AttachServer(s)
  <2>1. /\ sess[s].pc = "attach" /\ sess'[s].pc = "request" /\ sess'[s].srv = "yes"
        /\ sess'[s].ide = sess[s].ide /\ sess'[s].lock = sess[s].lock
        /\ \A t \in Sess \ {s} : sess'[t] = sess[t]
        /\ registered' = registered
    BY <1>1, <1>7 DEF AttachServer, SessStates
  <2>2. QED
    BY <1>1, <1>2, <2>1 DEF SessionOK
<1>8. ASSUME NEW i \in {"yes", "no"}, IdeFinalizes(s, i) PROVE SessionsInv'
  <2>1. /\ sess[s].ide = "yes"
        /\ sess'[s].ide = i /\ sess'[s].finalizing = TRUE /\ sess'[s].srv = sess[s].srv
        /\ \/ sess'[s].lock = None /\ sess'[s].pc = "idle"
           \/ sess'[s].lock = "ide" /\ sess'[s].pc = "unblock"
        /\ \A t \in Sess \ {s} : sess'[t] = sess[t]
    <3>1. PICK l, p : /\ sess' = [sess EXCEPT ![s].ide = i, ![s].finalizing = TRUE,
                                             ![s].lock = l, ![s].pc = p]
                      /\ (l = None /\ p = "idle") \/ (l = "ide" /\ p = "unblock")
      BY <1>8 DEF IdeFinalizes
    <3>2. QED
      BY <1>1, <1>8, <3>1 DEF IdeFinalizes, Free, SessStates
  <2>2. registered' = IF Ends(s) THEN registered \ {s} ELSE registered
    BY <1>8 DEF IdeFinalizes, NotifyChanged
  <2>3. SessionOK(s)'
    BY <1>1, <2>1, <2>2 DEF SessionOK, Ends
  <2>4. QED
    BY <1>2, <2>1, <2>2, <2>3
<1>9. CASE IdeUnblocks(s)
  <2>1. /\ sess[s].pc = "unblock" /\ sess'[s].pc \in {"idle", "disconnect", "detach"}
        /\ sess'[s].pc # "idle" => sess'[s].lock = sess[s].lock
        /\ sess'[s].ide = sess[s].ide /\ sess'[s].srv = sess[s].srv
        /\ sess'[s].finalizing = sess[s].finalizing
        /\ \A t \in Sess \ {s} : sess'[t] = sess[t]
        /\ registered' = registered
    BY <1>1, <1>9 DEF IdeUnblocks, SessStates
  <2>2. QED
    BY <1>1, <1>2, <2>1 DEF SessionOK
<1>10. CASE IdeDetaches(s)
  <2>1. /\ sess'[s].pc = "idle" /\ sess'[s].srv = "no" /\ sess'[s].ide = sess[s].ide
        /\ \A t \in Sess \ {s} : sess'[t] = sess[t]
    BY <1>1, <1>10 DEF IdeDetaches, SessStates
  <2>2. registered' = IF Ends(s) THEN registered \ {s} ELSE registered
    BY <1>10 DEF IdeDetaches, NotifyChanged
  <2>3. sess[s].ide \in {"yes", "no"}
    BY <1>1, <1>10 DEF SessionOK, SessStates, IdeDetaches
  <2>4. s \in registered' <=> sess'[s].ide = "yes"
    BY <1>1, <2>1, <2>2, <2>3 DEF SessionOK, Ends
  <2>5. SessionOK(s)'
    BY <2>1, <2>3, <2>4 DEF SessionOK
  <2>6. QED
    BY <1>2, <2>1, <2>2, <2>5
<1>11. CASE DelegateRequest(s)
  <2>1. /\ sess'[s].pc = "request" /\ sess'[s].lock = "ide" /\ sess[s].ide = "yes"
        /\ sess'[s].ide = sess[s].ide /\ sess'[s].srv = sess[s].srv
        /\ \A t \in Sess \ {s} : sess'[t] = sess[t]
        /\ registered' = registered
    BY <1>1, <1>11 DEF DelegateRequest, Free, SessStates
  <2>2. QED
    BY <1>1, <1>2, <2>1 DEF SessionOK
<1>12. CASE RequestEnds(s)
  <2>1. /\ \/ sess[s].pc = "request" /\ sess'[s].pc = "idle"
           \/ /\ sess[s].pc = "disconnect" /\ sess'[s].pc = "detach"
              /\ sess'[s].lock = sess[s].lock
        /\ sess'[s].ide = sess[s].ide /\ sess'[s].srv = sess[s].srv
        /\ sess'[s].finalizing = sess[s].finalizing
        /\ \A t \in Sess \ {s} : sess'[t] = sess[t]
        /\ registered' = registered
    BY <1>1, <1>12 DEF RequestEnds, Asks, SessStates
  <2>2. QED
    BY <1>1, <1>2, <2>1 DEF SessionOK
<1>13. QED
  BY <1>3, <1>4, <1>5, <1>6, <1>7, <1>8, <1>9, <1>10, <1>11, <1>12
     DEF IdeAlone, DisconnectRequest, IdeDisconnect

(* ... also those that end the process of the adapter, ... *)
LEMMA ExitSessions ==
    IInv /\ (\E s \in Sess : SearchFails(s) \/ AttachFails(s)) => SessionsInv'
<1> SUFFICES ASSUME IInv, ProcessExits, registered' = registered
             PROVE  SessionsInv'
  BY DEF SearchFails, AttachFails
<1>1. ASSUME NEW s \in Sess PROVE SessionOK(s)'
  <2>1. sess[s] \in SessStates /\ SessionOK(s)
    BY SessionsByOne DEF IInv, SessionsInv, TypeInv, TypeOK
  <2>2. sess'[s].pc = "dead" /\ sess'[s].ide = sess[s].ide /\ sess'[s].srv = sess[s].srv
    BY <2>1 DEF ProcessExits, SessStates
  <2>3. QED
    BY <2>1, <2>2 DEF SessionOK
<1>2. QED
  BY <1>1 DEF SessionsInv, BusyInv, RegisteredWhileConnected, SessionOK

(* ... and so does every other step. *)
LEMMA StepSessions == IInv /\ [Next]_vars => SessionsInv'
<1> SUFFICES ASSUME IInv, UNCHANGED <<registered, sess>> PROVE SessionsInv'
  BY StepCases, ConnSessions, IdeSessions, ExitSessions
     DEF Accept, ServerGoes, AcceptStep, InitFails, Register, Notify,
         TimerSets, MainStep, MainWaits, MainWakes, MainChecks, MainAwaitsSessions, vars, mains
<1>1. QED
  BY DEF IInv, SessionsInv, BusyInv, RegisteredWhileConnected

-----------------------------------------------------------------------------
(* Servers and their sessions. *)

ServersInv == OwnerInv /\ OneServerEach

(* A step that leaves the servers of sessions and connections alone, and   *)
(* takes no session from a disconnect() handler.                           *)
LEMMA QuietServers ==
    ASSUME IInv, lock' = lock,
           \A d \in Conns : /\ conn'[d].server = conn[d].server
                            /\ conn'[d].owner = conn[d].owner /\ conn'[d].pc = conn[d].pc,
           \A t \in Sess : /\ sess'[t].srv = sess[t].srv
                           /\ sess[t].finalizing => sess'[t].finalizing
                           /\ sess[t].lock \in Conns => sess'[t].lock = sess[t].lock
    PROVE  ServersInv'
<1>1. conn \in [Conns -> ConnStates]
  BY DEF IInv, TypeInv, TypeOK
<1>2. \A d \in Conns : conn[d].server \in Sess \cup {None} /\ conn[d].owner \in Sess \cup {None}
  BY <1>1 DEF ConnStates
<1>3. OwnerInv'
  BY <1>2 DEF IInv, TypeInv, HandInv, OwnerInv, OwnerOK
<1>4. OneServerEach'
  BY <1>2 DEF IInv, OneServerEach
<1>5. QED
  BY <1>3, <1>4 DEF ServersInv

(* The Server of another connection, when one session changes. *)
LEMMA OtherServer ==
    ASSUME IInv, NEW d \in Conns, conn'[d] = conn[d],
           NEW s \in Sess, \A t \in Sess \ {s} : sess'[t] = sess[t],
           sess'[s].srv # "none", sess[s].finalizing => sess'[s].finalizing,
           conn[d].pc \in {"unblock", "detach"} => conn[d].owner # s,
           conn[d].pc = "via_server" => lock' = lock
    PROVE  OwnerOK(d)'
<1>1. /\ conn[d].server \in Sess \cup {None}
      /\ conn[d].pc \in {"server", "via_server", "session", "unblock", "detach"}
         => conn[d].owner \in Sess
      /\ OwnerOK(d)
  BY DEF IInv, TypeInv, TypeOK, ConnStates, HandInv, OwnerInv
<1>2. QED
  BY <1>1 DEF OwnerOK

(* The handlers of a connection keep the relation between connections and  *)
(* sessions: each has its Server only in the session that has it.          *)
LEMMA ConnServers == IInv /\ (\E c \in Conns : ConnStep(c)) => ServersInv'
<1> SUFFICES ASSUME IInv, NEW c \in Conns, ConnStep(c)
             PROVE  OwnerInv' /\ OneServerEach'
  BY DEF ServersInv
<1>1. /\ conn \in [Conns -> ConnStates] /\ sess \in [Sess -> SessStates]
      /\ OwnerInv /\ OneServerEach /\ HandInv
  BY DEF IInv, TypeInv, TypeOK
<1>2. /\ conn[c] \in ConnStates
      /\ \A d \in Conns : conn[d].server \in Sess \cup {None} /\ conn[d].owner \in Sess \cup {None}
      /\ \A t \in Sess : sess[t] \in SessStates
  BY <1>1 DEF ConnStates
<1>3. None \notin Conns /\ None \notin Sess
  BY ServersConstants
<1>4. CASE BeginDisconnect(c)
  <2>1. /\ conn'[c].server = conn[c].server /\ conn'[c].owner = conn[c].server
        /\ conn'[c].pc = IF conn[c].server = None THEN "connection" ELSE "server"
        /\ \A d \in Conns \ {c} : conn'[d] = conn[d]
        /\ lock' = lock /\ sess' = sess
    BY <1>1, <1>2, <1>4 DEF BeginDisconnect, ConnStates
  <2>2. OwnerInv'
    BY <1>1, <2>1 DEF OwnerInv, OwnerOK
  <2>3. OneServerEach'
    BY <1>1, <2>1 DEF OneServerEach
  <2>4. QED
    BY <2>2, <2>3
<1>5. CASE ConnectionDisconnect(c)
  <2>1. /\ conn'[c].server = conn[c].server
        /\ \/ conn'[c].pc = "done"
           \/ /\ conn'[c].pc = "via_server" /\ conn'[c].owner = conn[c].server
              /\ lock' = c
        /\ \A d \in Conns \ {c} : conn'[d] = conn[d]
        /\ lock = None /\ sess' = sess
    BY <1>1, <1>2, <1>5 DEF ConnectionDisconnect, ConnStates
  <2>2. OwnerInv'
    BY <1>1, <1>3, <2>1 DEF OwnerInv, OwnerOK
  <2>3. OneServerEach'
    BY <1>1, <2>1 DEF OneServerEach
  <2>4. QED
    BY <2>2, <2>3
<1>6. CASE ViaServer(c)
  <2>1. PICK s \in Sess : /\ s = conn[c].owner /\ conn[c].server = s /\ lock = c
                          /\ sess[s].lock = None /\ conn[c].pc = "via_server"
    BY <1>1, <1>6 DEF ViaServer, HandInv, OwnerInv, OwnerOK
  <2>2. /\ sess'[s].srv = "no" /\ sess'[s].finalizing = TRUE /\ sess'[s].lock = None
        /\ \A t \in Sess \ {s} : sess'[t] = sess[t]
    BY <1>1, <1>2, <1>6, <2>1 DEF ViaServer, SessStates
  <2>3. /\ conn'[c].pc = "done" /\ conn'[c].server \in {s, None}
        /\ \A d \in Conns \ {c} : conn'[d] = conn[d]
    BY <1>1, <1>2, <1>6, <2>1 DEF ViaServer, ConnStates
  <2>4. \A d \in Conns \ {c} : conn[d].pc # "via_server" /\ conn[d].server # s
    BY <1>1, <1>3, <2>1 DEF OwnerInv, OwnerOK, OneServerEach
  <2>5. OwnerInv'
    <3>1. OwnerOK(c)'
      BY <2>1, <2>2, <2>3 DEF OwnerOK
    <3>2. ASSUME NEW d \in Conns \ {c} PROVE OwnerOK(d)'
      <4>1. conn[d].pc # "via_server"
            /\ (conn[d].pc \in {"unblock", "detach"} => conn[d].owner # s)
        BY <1>1, <1>3, <2>1, <2>4 DEF OwnerInv, OwnerOK
      <4>2. QED
        BY <2>2, <2>3, <4>1, OtherServer
    <3>3. QED
      BY <3>1, <3>2 DEF OwnerInv
  <2>6. OneServerEach'
    BY <1>1, <1>3, <2>1, <2>2, <2>3, <2>4 DEF OneServerEach
  <2>7. QED
    BY <2>5, <2>6
<1>7. CASE ServerDisconnect(c)
  <2>1. /\ conn'[c].server = conn[c].server /\ conn'[c].owner = conn[c].owner
        /\ conn[c].pc = "server" /\ conn'[c].pc = "session"
        /\ \A d \in Conns \ {c} : conn'[d] = conn[d]
        /\ lock' = lock /\ sess' = sess
    BY <1>1, <1>2, <1>7 DEF ServerDisconnect, ConnStates
  <2>2. OwnerInv'
    BY <1>1, <2>1 DEF OwnerInv, OwnerOK
  <2>3. OneServerEach'
    BY <1>1, <2>1 DEF OneServerEach
  <2>4. QED
    BY <2>2, <2>3
<1>8. CASE SessionDisconnect(c)
  <2>1. PICK s \in Sess : /\ s = conn[c].owner /\ conn[c].pc = "session"
                          /\ sess[s].lock = None
                          /\ conn[c].server = s \/ sess[s].finalizing
    BY <1>1, <1>8 DEF SessionDisconnect, HandInv, OwnerInv, OwnerOK
  <2>2. /\ sess'[s].srv = "no" /\ sess'[s].finalizing = TRUE
        /\ ~sess[s].finalizing => sess'[s].lock = c
        /\ \A t \in Sess \ {s} : sess'[t] = sess[t]
    <3>1. PICK l \in {c, None} :
            /\ sess' = [sess EXCEPT ![s].srv = "no", ![s].finalizing = TRUE, ![s].lock = l]
            /\ ~sess[s].finalizing => l = c
      BY <1>8, <2>1 DEF SessionDisconnect
    <3>2. QED
      BY <1>1, <1>2, <2>1, <3>1 DEF SessStates
  <2>3. /\ conn'[c].pc = IF sess[s].finalizing THEN "done" ELSE "unblock"
        /\ conn'[c].server = conn[c].server /\ conn'[c].owner = s
        /\ \A d \in Conns \ {c} : conn'[d] = conn[d]
        /\ lock' = lock
    BY <1>1, <1>2, <1>8, <2>1 DEF SessionDisconnect, ConnStates
  <2>4. OwnerInv'
    <3>1. OwnerOK(c)'
      <4>1. conn[c].server # None => conn[c].server \in Sess /\ sess[conn[c].server].srv # "none"
        BY <1>1, <1>2 DEF OwnerInv, OwnerOK
      <4>2. conn'[c].server # None => sess'[conn'[c].server].srv # "none"
        BY <2>2, <2>3, <4>1
      <4>3. QED
        BY <2>1, <2>2, <2>3, <4>2 DEF OwnerOK
    <3>2. ASSUME NEW d \in Conns \ {c} PROVE OwnerOK(d)'
      <4>1. conn[d].pc \in {"unblock", "detach"} => conn[d].owner # s
        BY <1>1, <1>3, <2>1 DEF OwnerInv, OwnerOK
      <4>2. QED
        BY <2>2, <2>3, <4>1, OtherServer
    <3>3. QED
      BY <3>1, <3>2 DEF OwnerInv
  <2>5. OneServerEach'
    BY <1>1, <1>3, <2>1, <2>2, <2>3 DEF OneServerEach
  <2>6. QED
    BY <2>4, <2>5
<1>9. CASE ServerUnblocks(c)
  <2>1. /\ conn'[c].server = conn[c].server /\ conn'[c].owner = conn[c].owner
        /\ conn[c].pc = "unblock" /\ conn'[c].pc = "detach"
        /\ \A d \in Conns \ {c} : conn'[d] = conn[d]
        /\ lock' = lock /\ sess' = sess
    BY <1>1, <1>2, <1>9 DEF ServerUnblocks, ConnStates
  <2>2. OwnerInv'
    BY <1>1, <2>1 DEF OwnerInv, OwnerOK
  <2>3. OneServerEach'
    BY <1>1, <2>1 DEF OneServerEach
  <2>4. QED
    BY <2>2, <2>3
<1>10. CASE ServerDetaches(c)
  <2>1. PICK s \in Sess : /\ s = conn[c].owner /\ conn[c].server = s
                          /\ sess[s].lock = c /\ sess[s].srv = "no"
    BY <1>1, <1>10 DEF ServerDetaches, HandInv, OwnerInv, OwnerOK
  <2>2. /\ sess'[s].srv = "no" /\ sess'[s].finalizing = sess[s].finalizing
        /\ \A t \in Sess \ {s} : sess'[t] = sess[t]
    BY <1>1, <1>2, <1>10, <2>1 DEF ServerDetaches, SessStates
  <2>3. /\ conn'[c].pc = "done" /\ conn'[c].server = None
        /\ \A d \in Conns \ {c} : conn'[d] = conn[d]
        /\ lock' = lock
    BY <1>1, <1>2, <1>10, <2>1 DEF ServerDetaches, ConnStates
  <2>4. OwnerInv'
    <3>1. OwnerOK(c)'
      BY <2>3 DEF OwnerOK
    <3>2. ASSUME NEW d \in Conns \ {c} PROVE OwnerOK(d)'
      <4>1. conn[d].pc \in {"unblock", "detach"} => conn[d].owner # s
        BY <1>1, <1>3, <2>1 DEF OwnerInv, OwnerOK
      <4>2. QED
        BY <2>1, <2>2, <2>3, <4>1, OtherServer
    <3>3. QED
      BY <3>1, <3>2 DEF OwnerInv
  <2>5. OneServerEach'
    BY <1>1, <1>3, <2>1, <2>2, <2>3 DEF OneServerEach
  <2>6. QED
    BY <2>4, <2>5
<1>11. QED
  BY <1>4, <1>5, <1>6, <1>7, <1>8, <1>9, <1>10 DEF ConnStep

(* So do the handlers of an IDE, ... *)
LEMMA IdeServers ==
    IInv /\ (\E s \in Sess : IdeAlone(s) \/ AttachServer(s) \/ DisconnectRequest(s)
                          \/ IdeDisconnect(s) \/ IdeUnblocks(s) \/ IdeDetaches(s))
         => ServersInv'
<1> SUFFICES ASSUME IInv, NEW s \in Sess,
                    IdeAlone(s) \/ AttachServer(s) \/ DisconnectRequest(s)
                    \/ IdeDisconnect(s) \/ IdeUnblocks(s) \/ IdeDetaches(s)
             PROVE  ServersInv'
  OBVIOUS
<1>1. /\ conn \in [Conns -> ConnStates] /\ sess \in [Sess -> SessStates]
      /\ OwnerInv /\ OneServerEach /\ HandInv /\ BusyInv /\ SessionOK(s)
  BY SessionsByOne DEF IInv, TypeInv, TypeOK, SessionsInv
<1>2. /\ \A d \in Conns : conn[d].server \in Sess \cup {None} /\ conn[d].owner \in Sess \cup {None}
      /\ sess[s] \in SessStates
      /\ None \notin Conns /\ None \notin Sess /\ "ide" \notin Conns
  BY <1>1, ServersConstants DEF ConnStates
<1>3. CASE IdeAlone(s)
  <2>1. /\ sess[s].lock \in Conns => sess'[s].lock = sess[s].lock
        /\ sess'[s].srv = sess[s].srv /\ sess'[s].finalizing = sess[s].finalizing
        /\ \A t \in Sess \ {s} : sess'[t] = sess[t]
    <3>1. CASE IdeConnects(s) \/ IdeLeaves(s) \/ TimeOut(s)
      BY <1>1, <1>2, <3>1 DEF IdeConnects, IdeLeaves, TimeOut, SessStates
    <3>2. CASE \E P \in SUBSET Conns, w \in Waits : BeginAttach(s, P, w)
      BY <1>1, <1>2, <3>2 DEF BeginAttach, Free, SessStates
    <3>3. CASE Search(s) \/ EventWait(s) \/ Wakes(s)
      BY <1>1, <1>2, <3>3 DEF Search, EventWait, Wakes, SessStates
    <3>4. CASE DelegateRequest(s)
      BY <1>1, <1>2, <3>4 DEF DelegateRequest, Free, SessStates
    <3>5. CASE RequestEnds(s)
      <4>1. sess[s].lock \notin Conns
        BY <1>1, <1>2, <3>5 DEF RequestEnds, Asks, SessionOK
      <4>2. QED
        BY <1>1, <1>2, <3>5, <4>1 DEF RequestEnds, SessStates
    <3>6. QED
      BY <1>3, <3>1, <3>2, <3>3, <3>4, <3>5 DEF IdeAlone
  <2>2. conn' = conn /\ lock' = lock
    BY <1>3 DEF IdeAlone, IdeConnects, IdeLeaves, TimeOut, BeginAttach, Search, EventWait, Wakes,
                DelegateRequest, RequestEnds
  <2>3. QED
    BY <2>1, <2>2, QuietServers
<1>4. CASE DisconnectRequest(s) \/ IdeDisconnect(s)
  <2>1. /\ sess[s].lock = None
        /\ sess'[s].srv = sess[s].srv /\ sess'[s].finalizing = TRUE
        /\ \A t \in Sess \ {s} : sess'[t] = sess[t]
    <3>1. PICK i, l, p : sess' = [sess EXCEPT ![s].ide = i, ![s].finalizing = TRUE,
                                             ![s].lock = l, ![s].pc = p]
      BY <1>4 DEF DisconnectRequest, IdeDisconnect, IdeFinalizes
    <3>2. QED
      BY <1>1, <1>2, <1>4, <3>1 DEF DisconnectRequest, IdeDisconnect, IdeFinalizes, Free, SessStates
  <2>2. conn' = conn /\ lock' = lock
    BY <1>4 DEF DisconnectRequest, IdeDisconnect, IdeFinalizes
  <2>3. QED
    BY <1>2, <2>1, <2>2, QuietServers
<1>5. CASE IdeUnblocks(s)
  <2>1. /\ sess[s].lock = "ide"
        /\ sess'[s].srv = sess[s].srv /\ sess'[s].finalizing = sess[s].finalizing
        /\ \A t \in Sess \ {s} : sess'[t] = sess[t]
    BY <1>1, <1>2, <1>5 DEF IdeUnblocks, SessionOK, SessStates
  <2>2. conn' = conn /\ lock' = lock
    BY <1>5 DEF IdeUnblocks
  <2>3. QED
    BY <1>2, <2>1, <2>2, QuietServers
<1>6. CASE AttachServer(s)
  <2>1. PICK c \in Conns : c = sess[s].found /\ conn[c].server = None
    BY <1>1, <1>6 DEF AttachServer, HandInv, Taken
  <2>2. /\ sess[s].srv = "none" /\ sess[s].lock = "ide"
        /\ sess'[s].srv = "yes" /\ sess'[s].finalizing = sess[s].finalizing
        /\ \A t \in Sess \ {s} : sess'[t] = sess[t]
    BY <1>1, <1>2, <1>6 DEF AttachServer, SessionOK, SessStates
  <2>3. /\ conn'[c].server = s /\ conn'[c].pc = conn[c].pc /\ conn'[c].owner = conn[c].owner
        /\ \A d \in Conns \ {c} : conn'[d] = conn[d]
        /\ lock' = lock
    BY <1>1, <1>2, <1>6, <2>1 DEF AttachServer, ConnStates
  <2>4. conn[c].pc \notin {"via_server", "unblock", "detach"}
    BY <1>1, <1>2, <2>1 DEF OwnerInv, OwnerOK, HandInv
  <2>5. \A d \in Conns : conn[d].server # s
    BY <1>1, <1>2, <2>2 DEF OwnerInv, OwnerOK
  <2>6. conn[c].pc \in {"server", "session"} => sess[conn[c].owner].finalizing /\ conn[c].owner \in Sess
    BY <1>1, <1>2, <2>1 DEF OwnerInv, OwnerOK, HandInv
  <2>7. OwnerInv'
    <3>1. OwnerOK(c)'
      <4>1. conn[c].pc \in {"server", "session"} => sess[conn[c].owner].srv # "none"
        BY <1>1 DEF OwnerInv, OwnerOK
      <4>2. conn[c].pc \in {"server", "session"} =>
              sess'[conn[c].owner].srv # "none" /\ sess'[conn[c].owner].finalizing
        BY <2>2, <2>6, <4>1
      <4>3. QED
        BY <2>2, <2>3, <2>4, <4>2 DEF OwnerOK
    <3>2. ASSUME NEW d \in Conns \ {c} PROVE OwnerOK(d)'
      <4>1. conn[d].pc \in {"unblock", "detach"} => conn[d].owner # s
        BY <1>1, <2>5 DEF OwnerInv, OwnerOK
      <4>2. QED
        BY <2>2, <2>3, <4>1, OtherServer
    <3>3. QED
      BY <3>1, <3>2 DEF OwnerInv
  <2>8. OneServerEach'
    BY <1>1, <1>2, <2>2, <2>3, <2>5, <2>1 DEF OneServerEach
  <2>9. QED
    BY <2>7, <2>8 DEF ServersInv
<1>7. CASE IdeDetaches(s)
  <2>1. /\ sess[s].lock = "ide" /\ sess[s].finalizing /\ lock = None /\ lock' = None
        /\ sess'[s].srv = "no" /\ sess'[s].finalizing = sess[s].finalizing
        /\ \A t \in Sess \ {s} : sess'[t] = sess[t]
    BY <1>1, <1>2, <1>7 DEF IdeDetaches, SessionOK, SessStates
  <2>2. \A d \in Conns :
            /\ conn'[d].server = IF conn[d].server = s THEN None ELSE conn[d].server
            /\ conn'[d].owner = conn[d].owner /\ conn'[d].pc = conn[d].pc
    <3>1. SUFFICES ASSUME NEW d \in Conns
                   PROVE  /\ conn'[d].server = IF conn[d].server = s THEN None ELSE conn[d].server
                          /\ conn'[d].owner = conn[d].owner /\ conn'[d].pc = conn[d].pc
      OBVIOUS
    <3>2. conn[d] \in ConnStates
      BY <1>1
    <3>3. conn'[d] = IF conn[d].server = s THEN [conn[d] EXCEPT !.server = None] ELSE conn[d]
      BY <1>7 DEF IdeDetaches
    <3>4. QED
      BY <3>2, <3>3 DEF ConnStates
  <2>3. OwnerInv'
    <3> SUFFICES ASSUME NEW d \in Conns PROVE OwnerOK(d)'
      BY DEF OwnerInv
    <3>1. OwnerOK(d) /\ (conn[d].server # None => conn[d].server \in Sess)
      BY <1>1, <1>2 DEF OwnerInv
    <3>2. conn[d].pc \in {"server", "via_server", "session", "unblock", "detach"}
          => conn[d].owner \in Sess
      BY <1>1 DEF HandInv
    <3>3. conn'[d].server # None => sess'[conn'[d].server].srv # "none"
      BY <2>1, <2>2, <3>1 DEF OwnerOK
    <3>4. conn[d].pc \in {"server", "session"} =>
             /\ conn'[d].server = conn[d].owner \/ sess'[conn[d].owner].finalizing
             /\ sess'[conn[d].owner].srv # "none"
      BY <2>1, <2>2, <3>1, <3>2 DEF OwnerOK
    <3>5. conn[d].pc # "via_server"
      BY <1>2, <2>1, <3>1 DEF OwnerOK
    <3>6. conn[d].pc \in {"unblock", "detach"} =>
             /\ conn[d].owner # s /\ sess'[conn[d].owner] = sess[conn[d].owner]
             /\ conn'[d].server = conn[d].server
      BY <1>2, <2>1, <2>2, <3>1, <3>2 DEF OwnerOK
    <3>7. QED
      BY <2>2, <3>1, <3>3, <3>4, <3>5, <3>6 DEF OwnerOK
  <2>4. OneServerEach'
    BY <1>1, <1>2, <2>1, <2>2 DEF OneServerEach
  <2>5. QED
    BY <2>3, <2>4 DEF ServersInv
<1>8. QED
  BY <1>3, <1>4, <1>5, <1>6, <1>7

(* ... also those that end the process, ... *)
LEMMA ExitServers ==
    IInv /\ (\E s \in Sess : SearchFails(s) \/ AttachFails(s)) => ServersInv'
<1> SUFFICES ASSUME IInv, ProcessExits
             PROVE  ServersInv'
  BY DEF SearchFails, AttachFails
<1>1. /\ \A d \in Conns : conn[d] \in ConnStates
      /\ \A t \in Sess : sess[t] \in SessStates
      /\ OwnerInv /\ OneServerEach
  BY DEF IInv, TypeInv, TypeOK
<1>2. ASSUME NEW d \in Conns
      PROVE  conn'[d].server = conn[d].server /\ conn'[d].pc = "dead"
  BY <1>1 DEF ProcessExits, ConnStates
<1>3. ASSUME NEW t \in Sess PROVE sess'[t].srv = sess[t].srv
  BY <1>1 DEF ProcessExits, SessStates
<1>4. \A d \in Conns : conn[d].server # None => conn[d].server \in Sess
  BY <1>1 DEF ConnStates
<1>5. OwnerInv'
  BY <1>1, <1>2, <1>3, <1>4 DEF OwnerInv, OwnerOK
<1>6. OneServerEach'
  BY <1>1, <1>2, <1>3 DEF OneServerEach
<1>7. QED
  BY <1>5, <1>6 DEF ServersInv

(* ... and every other step. *)
LEMMA StepServers == IInv /\ [Next]_vars => ServersInv'
<1>1. IInv /\ (\E c \in Conns : Accept(c) \/ ServerGoes(c)) => ServersInv'
  <2> SUFFICES ASSUME IInv, NEW c \in Conns, Accept(c) \/ ServerGoes(c) PROVE ServersInv'
    OBVIOUS
  <2>1. \A d \in Conns : /\ conn'[d].server = conn[d].server
                         /\ conn'[d].owner = conn[d].owner /\ conn'[d].pc = conn[d].pc
    BY SMTT(60) DEF IInv, TypeInv, TypeOK, Accept, ServerGoes, ConnStates
  <2>2. lock' = lock /\ sess' = sess
    BY DEF Accept, ServerGoes
  <2>3. QED
    BY <2>1, <2>2, QuietServers
<1>2. IInv /\ InitFails => ServersInv'
  <2> SUFFICES ASSUME IInv, InitFails PROVE ServersInv'
    OBVIOUS
  <2>1. accept.conn \in Conns /\ conn \in [Conns -> ConnStates]
        /\ conn' = [conn EXCEPT ![accept.conn].link = "down"] /\ lock' = lock /\ sess' = sess
    BY DEF IInv, TypeInv, TypeOK, HandInv, InitFails
  <2>2. \A d \in Conns : /\ conn'[d].server = conn[d].server
                         /\ conn'[d].owner = conn[d].owner /\ conn'[d].pc = conn[d].pc
    BY <2>1 DEF ConnStates
  <2>3. QED
    BY <2>1, <2>2, QuietServers
<1>3. IInv /\ UNCHANGED <<lock, conn, sess>> => ServersInv'
  BY QuietServers
<1>4. Register \/ Notify \/ TimerSets \/ MainStep \/ UNCHANGED vars => UNCHANGED <<lock, conn, sess>>
  BY DEF Register, Notify, TimerSets, MainStep, MainWaits, MainWakes, MainChecks,
         MainAwaitsSessions, vars
<1>5. QED
  BY <1>1, <1>2, <1>3, <1>4, StepCases, ConnServers, IdeServers, ExitServers DEF AcceptStep

-----------------------------------------------------------------------------
(* The list of connections. *)

ListsInv == FreshInv /\ ListedAreLive

(* What the invariant says of one connection. *)
ListOK(c) ==
    /\ c \in ToSet(listed) =>
          ~conn[c].disconnected /\ conn[c].pc \in {"none", "connection", "server", "dead"}
    /\ conn[c].pc = "server" \/ (conn[c].pc = "connection" /\ conn[c].server # None)
       => c \in ToSet(listed)
    /\ Fresh(c) =>
          /\ c \notin ToSet(listed) /\ ~Found(c)
          /\ conn[c].pc \in {"none", "connection", "done", "dead"}
          /\ conn[c].pc = "done" => conn[c].disconnected
    /\ Found(c) /\ conn[c].pc \in {"none", "connection"} => c \in ToSet(listed)

(* What is claimed of the list of connections is that no one is in it      *)
(* twice, and a claim for each connection.                                 *)
LEMMA ListsByOne ==
    ASSUME TypeOK
    PROVE  ListsInv <=> /\ Distinct(listed)
                        /\ accept.pc = "init" => conn[accept.conn].link # "new"
                        /\ \A c \in Conns : ListOK(c)
<1>1. \A c \in ToSet(listed) : c \in Conns
  BY SetOfSeq DEF TypeOK
<1>2. QED
  BY <1>1 DEF ListsInv, FreshInv, ListedAreLive, ListOK, Distinct

(* The same after a step. *)
LEMMA ListsByOneNext ==
    ASSUME TypeInv', Distinct(listed)',
           accept'.pc = "init" => conn'[accept'.conn].link # "new",
           \A c \in Conns : ListOK(c)'
    PROVE  ListsInv'
<1>1. \A c \in ToSet(listed') : c \in Conns
  BY SetOfSeq DEF TypeInv, TypeOK
<1>2. QED
  BY <1>1 DEF ListsInv, FreshInv, ListedAreLive, ListOK, Distinct

(* A step that leaves the list alone, and no connection further. *)
LEMMA QuietLists ==
    ASSUME IInv, TypeInv', listed' = listed,
           accept' = accept \/ accept'.pc # "init",
           \A d \in Conns : /\ conn'[d].link = "new" => conn[d].link = "new"
                            /\ conn'[d].pc = conn[d].pc
                            /\ conn'[d].disconnected = conn[d].disconnected
                            /\ conn'[d].server \in {conn[d].server, None},
           \A t \in Sess : sess'[t].found = sess[t].found
    PROVE  ListsInv'
<1>1. /\ TypeInv /\ Distinct(listed)
      /\ accept.pc = "init" => conn[accept.conn].link # "new" /\ accept.conn \in Conns
      /\ \A d \in Conns : ListOK(d)
  BY ListsByOne DEF IInv, ListsInv, TypeInv, HandInv
<1>2. ASSUME NEW d \in Conns PROVE ListOK(d)'
  <2>1. Fresh(d)' => Fresh(d)
    BY DEF Fresh
  <2>2. Found(d)' => Found(d)
    BY DEF Found
  <2>3. conn'[d].pc = conn[d].pc /\ conn'[d].disconnected = conn[d].disconnected
        /\ (conn'[d].server # None => conn[d].server # None)
    OBVIOUS
  <2>4. QED
    BY <1>1, <2>1, <2>2, <2>3 DEF ListOK
<1>3. QED
  BY <1>1, <1>2, ListsByOneNext

(* A step of the disconnect() handler of one connection. *)
LEMMA Delisted ==
    ASSUME IInv, NEW c \in Conns, Delist(c)
    PROVE  ToSet(listed') = ToSet(listed) \ {c} /\ Distinct(listed')
<1>1. listed \in Seq(Conns) /\ Distinct(listed)
  BY ListsByOne DEF IInv, ListsInv, TypeInv, TypeOK
<1>2. listed' = RemoveFirst(listed, c)
  BY DEF Delist
<1>3. QED
  BY <1>1, <1>2, RemoveDistinct

(* A step that changes one connection, or takes it off the list, has to    *)
(* keep the claim for that one only.                                       *)
LEMMA OneConnLists ==
    ASSUME IInv, TypeInv', NEW c \in Conns, listed' = listed \/ Delist(c),
           accept' = accept, conn'[c].link = conn[c].link,
           \A d \in Conns \ {c} : conn'[d] = conn[d],
           \A t \in Sess : sess'[t].found = sess[t].found,
           ListOK(c)'
    PROVE  ListsInv'
<1>1. /\ TypeInv /\ Distinct(listed)
      /\ accept.pc = "init" => conn[accept.conn].link # "new" /\ accept.conn \in Conns
      /\ \A d \in Conns : ListOK(d)
  BY ListsByOne DEF IInv, ListsInv, TypeInv, HandInv
<1>2. Distinct(listed') /\ \A d \in Conns \ {c} : d \in ToSet(listed') <=> d \in ToSet(listed)
  BY <1>1, Delisted
<1>3. ASSUME NEW d \in Conns \ {c} PROVE ListOK(d)'
  <2>1. (Fresh(d)' <=> Fresh(d)) /\ (Found(d)' <=> Found(d))
    BY DEF Fresh, Found
  <2>2. QED
    BY <1>1, <1>2, <2>1 DEF ListOK
<1>4. QED
  BY <1>1, <1>2, <1>3, ListsByOneNext

(* The handlers of a connection keep what is claimed of the list:          *)
(* disconnect() takes it off.                                              *)
LEMMA ConnLists == IInv /\ (\E c \in Conns : ConnStep(c)) => ListsInv'
<1> SUFFICES ASSUME IInv, NEW c \in Conns, ConnStep(c)
             PROVE  ListsInv'
  OBVIOUS
<1>1. /\ conn \in [Conns -> ConnStates] /\ sess \in [Sess -> SessStates]
      /\ conn[c] \in ConnStates /\ HandInv /\ ListOK(c)
  BY ListsByOne DEF IInv, ListsInv, TypeInv, TypeOK
<1>2. TypeInv'
  BY ConnTypes DEF IInv
<1>3. ASSUME NEW s \in Sess, NEW l \in Conns \cup {None, "ide"},
             sess' = [sess EXCEPT ![s].srv = "no", ![s].finalizing = TRUE]
             \/ sess' = [sess EXCEPT ![s].srv = "no", ![s].finalizing = TRUE, ![s].lock = l]
             \/ sess' = [sess EXCEPT ![s].lock = l]
      PROVE  \A t \in Sess : sess'[t].found = sess[t].found
  BY <1>1, <1>3 DEF SessStates
<1>4. CASE BeginDisconnect(c)
  <2>1. /\ conn'[c].link = conn[c].link /\ conn'[c].server = conn[c].server
        /\ conn'[c].disconnected = conn[c].disconnected /\ conn[c].pc = "none"
        /\ conn'[c].pc = IF conn[c].server = None THEN "connection" ELSE "server"
        /\ \A d \in Conns \ {c} : conn'[d] = conn[d]
        /\ listed' = listed /\ accept' = accept /\ sess' = sess
    BY <1>1, <1>4 DEF BeginDisconnect, ConnStates
  <2>2. (Fresh(c)' <=> Fresh(c)) /\ (Found(c)' <=> Found(c)) /\ (conn[c].server # None => Found(c))
    BY <2>1 DEF Fresh, Found
  <2>3. ListOK(c)'
    BY <1>1, <2>1, <2>2 DEF ListOK
  <2>4. QED
    BY <1>2, <2>1, <2>3, OneConnLists
<1>5. CASE ConnectionDisconnect(c)
  <2>1. /\ conn'[c].link = conn[c].link /\ conn'[c].server = conn[c].server
        /\ conn'[c].disconnected /\ conn[c].pc = "connection"
        /\ conn'[c].pc = IF conn[c].server = None THEN "done" ELSE "via_server"
        /\ \A d \in Conns \ {c} : conn'[d] = conn[d]
        /\ Delist(c) /\ accept' = accept /\ sess' = sess
    BY <1>1, <1>5 DEF ConnectionDisconnect, ConnStates
  <2>2. (Fresh(c)' <=> Fresh(c)) /\ (Found(c)' <=> Found(c)) /\ (conn[c].server # None => Found(c))
    BY <2>1 DEF Fresh, Found
  <2>3. c \notin ToSet(listed')
    BY <2>1, Delisted
  <2>4. ListOK(c)'
    BY <1>1, <2>1, <2>2, <2>3 DEF ListOK
  <2>5. QED
    BY <1>2, <2>1, <2>4, OneConnLists
<1>6. CASE ServerDisconnect(c)
  <2>1. /\ conn'[c].link = conn[c].link /\ conn[c].pc = "server" /\ conn'[c].pc = "session"
        /\ \A d \in Conns \ {c} : conn'[d] = conn[d]
        /\ Delist(c) /\ accept' = accept /\ sess' = sess
    BY <1>1, <1>6 DEF ServerDisconnect, ConnStates
  <2>2. Fresh(c)' <=> Fresh(c)
    BY <2>1 DEF Fresh
  <2>3. c \notin ToSet(listed')
    BY <2>1, Delisted
  <2>4. ListOK(c)'
    BY <1>1, <2>1, <2>2, <2>3 DEF ListOK
  <2>5. QED
    BY <1>2, <2>1, <2>4, OneConnLists
<1>7. CASE ViaServer(c) \/ SessionDisconnect(c) \/ ServerUnblocks(c) \/ ServerDetaches(c)
  <2>1. /\ conn[c].pc \in {"via_server", "session", "unblock", "detach"}
        /\ conn'[c].pc \in {"unblock", "detach", "done"}
        /\ conn'[c].link = conn[c].link
        /\ \A d \in Conns \ {c} : conn'[d] = conn[d]
        /\ listed' = listed /\ accept' = accept
    <3>1. PICK p \in {"unblock", "detach", "done"}, v \in Sess \cup {None} :
              conn' = [conn EXCEPT ![c].pc = p, ![c].server = v]
              \/ conn' = [conn EXCEPT ![c].pc = p]
      <4>1. CASE ViaServer(c)
        BY <1>1, <4>1 DEF ViaServer, ConnStates
      <4>2. CASE SessionDisconnect(c)
        BY <4>2 DEF SessionDisconnect
      <4>3. CASE ServerUnblocks(c) \/ ServerDetaches(c)
        BY <4>3 DEF ServerUnblocks, ServerDetaches
      <4>4. QED
        BY <1>7, <4>1, <4>2, <4>3
    <3>2. conn[c].pc \in {"via_server", "session", "unblock", "detach"}
          /\ listed' = listed /\ accept' = accept
      BY <1>7 DEF ViaServer, SessionDisconnect, ServerUnblocks, ServerDetaches
    <3>3. QED
      BY <1>1, <3>1, <3>2 DEF ConnStates
  <2>2. \A t \in Sess : sess'[t].found = sess[t].found
    <3>1. conn[c].owner \in Sess
      BY <1>1, <1>7 DEF HandInv, ViaServer, SessionDisconnect, ServerUnblocks, ServerDetaches
    <3>2. CASE ViaServer(c)
      BY <1>3, <3>1, <3>2 DEF ViaServer
    <3>3. CASE SessionDisconnect(c)
      BY <1>3, <3>1, <3>3 DEF SessionDisconnect
    <3>4. CASE ServerUnblocks(c)
      BY <3>4 DEF ServerUnblocks
    <3>5. CASE ServerDetaches(c)
      BY <1>3, <3>1, <3>5 DEF ServerDetaches
    <3>6. QED
      BY <1>7, <3>2, <3>3, <3>4, <3>5
  <2>3. Fresh(c)' <=> Fresh(c)
    BY <2>1 DEF Fresh
  <2>4. ListOK(c)'
    BY <1>1, <2>1, <2>3 DEF ListOK
  <2>5. QED
    BY <1>2, <2>1, <2>2, <2>4, OneConnLists
<1>8. QED
  BY <1>4, <1>5, <1>6, <1>7 DEF ConnStep

(* The accept thread adds to the list only a connection that is not in it. *)
LEMMA AcceptLists ==
    IInv /\ ((\E c \in Conns : Accept(c) \/ ServerGoes(c)) \/ AcceptStep) => ListsInv'
<1> SUFFICES ASSUME IInv, (\E c \in Conns : Accept(c) \/ ServerGoes(c)) \/ AcceptStep
             PROVE  ListsInv'
  OBVIOUS
<1>1. /\ conn \in [Conns -> ConnStates] /\ listed \in Seq(Conns) /\ HandInv /\ TypeInv
      /\ Distinct(listed) /\ (accept.pc = "init" => conn[accept.conn].link # "new")
      /\ \A c \in Conns : ListOK(c)
  BY ListsByOne DEF IInv, ListsInv, TypeInv, TypeOK
<1>2. TypeInv'
  BY AcceptTypes DEF IInv
<1>3. ASSUME NEW c \in Conns, Accept(c) PROVE ListsInv'
  <2>1. /\ conn[c].link = "new" /\ conn'[c].link = "up"
        /\ \A d \in Conns : /\ conn'[d].pc = conn[d].pc /\ conn'[d].server = conn[d].server
                            /\ conn'[d].disconnected = conn[d].disconnected
                            /\ d # c => conn'[d].link = conn[d].link
        /\ accept'.pc = "init" /\ accept'.conn = c
        /\ listed' = listed /\ sess' = sess
    BY <1>1, <1>3 DEF Accept, ConnStates
  <2>2. ASSUME NEW d \in Conns PROVE ListOK(d)'
    <3>1. Fresh(d)' => Fresh(d)
      BY <2>1 DEF Fresh
    <3>2. Found(d)' <=> Found(d)
      BY <2>1 DEF Found
    <3>3. QED
      BY <1>1, <2>1, <3>1, <3>2 DEF ListOK
  <2>3. QED
    BY <1>1, <1>2, <2>1, <2>2, ListsByOneNext
<1>4. ASSUME NEW c \in Conns, ServerGoes(c) PROVE ListsInv'
  <2>1. /\ \A d \in Conns : /\ conn'[d].pc = conn[d].pc /\ conn'[d].server = conn[d].server
                            /\ conn'[d].disconnected = conn[d].disconnected
                            /\ conn'[d].link = "new" => conn[d].link = "new"
        /\ listed' = listed /\ sess' = sess /\ accept' = accept
    BY <1>1, <1>4 DEF ServerGoes, ConnStates
  <2>2. QED
    BY <1>2, <2>1, QuietLists
<1>5. CASE InitFails
  <2>1. accept.conn \in Conns /\ conn' = [conn EXCEPT ![accept.conn].link = "down"]
        /\ listed' = listed /\ sess' = sess /\ accept'.pc = "accept"
    BY <1>1, <1>5 DEF InitFails, HandInv, TypeInv, TypeOK
  <2>2. \A d \in Conns : /\ conn'[d].pc = conn[d].pc /\ conn'[d].server = conn[d].server
                         /\ conn'[d].disconnected = conn[d].disconnected
                         /\ conn'[d].link = "new" => conn[d].link = "new"
    BY <1>1, <2>1 DEF ConnStates
  <2>3. QED
    BY <1>2, <2>1, <2>2, QuietLists
<1>6. CASE Register
  <2>1. PICK c \in Conns : c = accept.conn
    BY <1>1, <1>6 DEF Register, HandInv
  <2>2. /\ conn' = conn /\ sess' = sess /\ accept'.pc \in {"accept", "notify"}
        /\ listed' = listed \/ (~conn[c].disconnected /\ listed' = Append(listed, c))
    BY <1>1, <1>6, <2>1 DEF Register, Entry, Gone, TypeInv, TypeOK
  <2>3. CASE listed' = listed
    BY <1>2, <2>2, <2>3, QuietLists
  <2>4. CASE ~conn[c].disconnected /\ listed' = Append(listed, c)
    <3>1. Fresh(c) /\ conn[c].link # "new"
      BY <1>1, <1>6, <2>1 DEF Register, Fresh
    <3>2. c \notin ToSet(listed) /\ conn[c].pc \in {"none", "connection", "dead"} /\ ~Found(c)
      BY <1>1, <2>4, <3>1 DEF ListOK
    <3>3. ToSet(listed') = ToSet(listed) \cup {c} /\ Distinct(listed')
      BY <1>1, <2>4, <3>2, AppendDistinct
    <3>4. ASSUME NEW d \in Conns PROVE ListOK(d)'
      <4>1. (Fresh(d)' => Fresh(d) /\ d # c) /\ (Found(d)' <=> Found(d))
        BY <2>2, <3>1 DEF Fresh, Found
      <4>2. CASE d = c
        BY <2>2, <2>4, <3>2, <3>3, <4>1, <4>2 DEF ListOK
      <4>3. CASE d # c
        BY <1>1, <2>2, <3>3, <4>1, <4>3 DEF ListOK
      <4>4. QED
        BY <4>2, <4>3
    <3>5. QED
      BY <1>1, <1>2, <2>2, <3>3, <3>4, ListsByOneNext
  <2>5. QED
    BY <2>2, <2>3, <2>4
<1>7. CASE Notify
  <2>1. listed' = listed /\ conn' = conn /\ sess' = sess /\ accept'.pc # "init"
    BY <1>1, <1>7 DEF Notify, TypeInv, TypeOK
  <2>2. QED
    BY <1>2, <2>1, QuietLists
<1>8. QED
  BY <1>3, <1>4, <1>5, <1>6, <1>7 DEF AcceptStep

(* The handlers of an IDE change no list, and find only what is in it, ... *)
LEMMA IdeLists ==
    IInv /\ (\E s \in Sess : IdeAlone(s) \/ AttachServer(s) \/ DisconnectRequest(s)
                          \/ IdeDisconnect(s) \/ IdeUnblocks(s) \/ IdeDetaches(s))
         => ListsInv'
<1> SUFFICES ASSUME IInv, NEW s \in Sess,
                    IdeAlone(s) \/ AttachServer(s) \/ DisconnectRequest(s)
                    \/ IdeDisconnect(s) \/ IdeUnblocks(s) \/ IdeDetaches(s)
             PROVE  ListsInv'
  OBVIOUS
<1>1. /\ conn \in [Conns -> ConnStates] /\ sess \in [Sess -> SessStates]
      /\ sess[s] \in SessStates /\ listed \in Seq(Conns) /\ HandInv /\ TypeInv
      /\ Distinct(listed) /\ (accept.pc = "init" => conn[accept.conn].link # "new")
      /\ \A c \in Conns : ListOK(c)
  BY ListsByOne DEF IInv, ListsInv, TypeInv, TypeOK
<1>2. TypeInv'
  BY IdeAloneTypes, IdeServerTypes DEF IInv
<1>3. listed' = listed /\ accept' = accept
  BY DEF IdeAlone, IdeConnects, IdeLeaves, TimeOut, BeginAttach, Search, EventWait, Wakes,
         DelegateRequest, RequestEnds,
         AttachServer, DisconnectRequest, IdeDisconnect, IdeFinalizes, IdeUnblocks, IdeDetaches
<1>4. CASE Search(s) /\ sess'[s].pc = "attach"
  <2>1. /\ sess' = [sess EXCEPT ![s].pc = "attach", ![s].found = listed[Oldest(s)],
                                ![s].wait = None]
        /\ Matches(s) /\ conn' = conn
    BY <1>1, <1>4 DEF Search, SessStates
  <2>2. PICK c \in ToSet(listed) : c = listed[Oldest(s)]
    <3>1. Oldest(s) \in 1..Len(listed)
      BY <1>1, <2>1, OldestIsListed DEF TypeInv
    <3>2. QED
      BY <1>1, <3>1, SetOfSeq
  <2>3. \A t \in Sess : sess'[t].found = IF t = s THEN c ELSE sess[t].found
    BY <1>1, <2>1, <2>2 DEF SessStates
  <2>4. ASSUME NEW d \in Conns PROVE ListOK(d)'
    <3>1. (Fresh(d)' <=> Fresh(d)) /\ (Found(d)' => Found(d) \/ d = c)
      BY <1>3, <2>1, <2>3 DEF Fresh, Found
    <3>2. QED
      BY <1>1, <1>3, <2>1, <2>2, <3>1 DEF ListOK
  <2>5. QED
    BY <1>1, <1>2, <1>3, <2>1, <2>4, ListsByOneNext
<1>5. CASE AttachServer(s)
  <2>1. PICK c \in Conns : c = sess[s].found /\ conn' = [conn EXCEPT ![c].server = s]
    BY <1>1, <1>5 DEF AttachServer, HandInv
  <2>2. \A d \in Conns : /\ conn'[d].pc = conn[d].pc /\ conn'[d].link = conn[d].link
                         /\ conn'[d].disconnected = conn[d].disconnected
                         /\ d # c => conn'[d].server = conn[d].server
    BY <1>1, <2>1 DEF ConnStates
  <2>3. \A t \in Sess : sess'[t].found = sess[t].found
    BY <1>1, <1>5 DEF AttachServer, SessStates
  <2>4. Found(c)
    BY <2>1 DEF Found
  <2>5. ASSUME NEW d \in Conns PROVE ListOK(d)'
    <3>1. (Fresh(d)' <=> Fresh(d)) /\ (Found(d)' => Found(d) \/ d = c)
      BY <1>3, <2>2, <2>3 DEF Fresh, Found
    <3>2. QED
      BY <1>1, <1>3, <2>2, <2>4, <3>1 DEF ListOK
  <2>6. QED
    BY <1>1, <1>2, <1>3, <2>2, <2>5, ListsByOneNext DEF HandInv
<1>6. ASSUME \A t \in Sess : sess'[t].found = sess[t].found, ~AttachServer(s)
      PROVE  ListsInv'
  <2>1. \A d \in Conns : /\ conn'[d].pc = conn[d].pc /\ conn'[d].link = conn[d].link
                         /\ conn'[d].disconnected = conn[d].disconnected
                         /\ conn'[d].server \in {conn[d].server, None}
    <3>1. CASE conn' = conn
      BY <3>1
    <3>2. CASE IdeDetaches(s)
      <4> SUFFICES ASSUME NEW d \in Conns
                   PROVE  /\ conn'[d].pc = conn[d].pc /\ conn'[d].link = conn[d].link
                          /\ conn'[d].disconnected = conn[d].disconnected
                          /\ conn'[d].server \in {conn[d].server, None}
        OBVIOUS
      <4>1. conn[d] \in ConnStates
            /\ conn'[d] \in {conn[d], [conn[d] EXCEPT !.server = None]}
        BY <1>1, <3>2 DEF IdeDetaches
      <4>2. QED
        BY <4>1 DEF ConnStates
    <3>3. QED
      BY <1>6, <3>1, <3>2
         DEF IdeAlone, IdeConnects, IdeLeaves, TimeOut, BeginAttach, Search, EventWait, Wakes,
             DelegateRequest, RequestEnds, DisconnectRequest, IdeDisconnect, IdeFinalizes, IdeUnblocks
  <2>2. QED
    BY <1>2, <1>3, <1>6, <2>1, QuietLists
<1>7. (Search(s) /\ sess'[s].pc = "attach") \/ AttachServer(s)
      \/ (~AttachServer(s) /\ \A t \in Sess : sess'[t].found = sess[t].found)
  <2>1. CASE IdeConnects(s) \/ IdeLeaves(s) \/ TimeOut(s)
    <3>1. \/ sess' = [sess EXCEPT ![s].ide = "yes"] \/ sess' = [sess EXCEPT ![s].left = TRUE]
          \/ sess' = [sess EXCEPT ![s].timedOut = TRUE]
      BY <2>1 DEF IdeConnects, IdeLeaves, TimeOut
    <3>2. CASE sess' = [sess EXCEPT ![s].ide = "yes"]
      BY <1>1, <3>2 DEF SessStates
    <3>3. CASE sess' = [sess EXCEPT ![s].left = TRUE]
      BY <1>1, <3>3 DEF SessStates
    <3>4. CASE sess' = [sess EXCEPT ![s].timedOut = TRUE]
      BY <1>1, <3>4 DEF SessStates
    <3>5. QED
      BY <3>1, <3>2, <3>3, <3>4
  <2>2. CASE \E P \in SUBSET Conns, w \in Waits : BeginAttach(s, P, w)
    BY <1>1, <2>2 DEF BeginAttach, SessStates
  <2>3. CASE Search(s)
    <3>1. sess'[s].pc = "attach" \/ sess' = [sess EXCEPT ![s].pc = "gap"]
      BY <1>1, <2>3 DEF Search, SessStates
    <3>2. CASE sess' = [sess EXCEPT ![s].pc = "gap"]
      BY <1>1, <3>2 DEF SessStates
    <3>3. QED
      BY <2>3, <3>1, <3>2
  <2>4. CASE EventWait(s) \/ Wakes(s)
    <3>1. PICK p : sess' = [sess EXCEPT ![s].pc = p]
      BY <2>4 DEF EventWait, Wakes
    <3>2. QED
      BY <1>1, <3>1 DEF SessStates
  <2>5. CASE DisconnectRequest(s) \/ IdeDisconnect(s)
    <3>1. PICK i, l, p : sess' = [sess EXCEPT ![s].ide = i, ![s].finalizing = TRUE,
                                             ![s].lock = l, ![s].pc = p]
      BY <2>5 DEF DisconnectRequest, IdeDisconnect, IdeFinalizes
    <3>2. QED
      BY <1>1, <3>1 DEF SessStates
  <2>6. CASE IdeUnblocks(s)
    <3>1. \/ sess' = [sess EXCEPT ![s].pc = "idle", ![s].lock = None]
          \/ \E p \in {"disconnect", "detach"} : sess' = [sess EXCEPT ![s].pc = p]
      BY <2>6 DEF IdeUnblocks
    <3>2. CASE sess' = [sess EXCEPT ![s].pc = "idle", ![s].lock = None]
      BY <1>1, <3>2 DEF SessStates
    <3>3. CASE \E p \in {"disconnect", "detach"} : sess' = [sess EXCEPT ![s].pc = p]
      <4>1. PICK p : sess' = [sess EXCEPT ![s].pc = p]
        BY <3>3
      <4>2. QED
        BY <1>1, <4>1 DEF SessStates
    <3>4. QED
      BY <3>1, <3>2, <3>3
  <2>7. CASE IdeDetaches(s)
    BY <1>1, <2>7 DEF IdeDetaches, SessStates
  <2>8. CASE DelegateRequest(s)
    <3>1. sess' = [sess EXCEPT ![s].pc = "request", ![s].lock = "ide"]
      BY <2>8 DEF DelegateRequest
    <3>2. QED
      BY <1>1, <3>1 DEF SessStates
  <2>9. CASE RequestEnds(s)
    BY <1>1, <2>9 DEF RequestEnds, SessStates
  <2>10. QED
    BY <2>1, <2>2, <2>3, <2>4, <2>5, <2>6, <2>7, <2>8, <2>9 DEF IdeAlone
<1>8. QED
  BY <1>4, <1>5, <1>6, <1>7

(* ... nor do those that end the process. *)
LEMMA ExitLists ==
    IInv /\ (\E s \in Sess : SearchFails(s) \/ AttachFails(s)) => ListsInv'
<1> SUFFICES ASSUME IInv, NEW s \in Sess, SearchFails(s) \/ AttachFails(s)
             PROVE  ListsInv'
  OBVIOUS
<1>1. /\ TypeInv /\ Distinct(listed)
      /\ \A d \in Conns : conn[d] \in ConnStates
      /\ \A t \in Sess : sess[t] \in SessStates
      /\ \A c \in Conns : ListOK(c)
  BY ListsByOne DEF IInv, ListsInv, TypeInv, TypeOK
<1>2. TypeInv'
  BY ExitTypes DEF IInv
<1>3. listed' = listed /\ ProcessExits
  BY DEF SearchFails, AttachFails
<1>4. accept'.pc = "dead"
  BY <1>1, <1>3 DEF ProcessExits, TypeInv, TypeOK
<1>5. ASSUME NEW t \in Sess PROVE sess'[t].found = sess[t].found
  BY <1>1, <1>3 DEF ProcessExits, SessStates
<1>6. ASSUME NEW d \in Conns PROVE ListOK(d)'
  <2>1. /\ conn'[d].pc = "dead" /\ conn'[d].link = conn[d].link
        /\ conn'[d].disconnected = conn[d].disconnected /\ conn'[d].server = conn[d].server
    BY <1>1, <1>3 DEF ProcessExits, ConnStates
  <2>2. (Fresh(d)' => Fresh(d)) /\ (Found(d)' <=> Found(d))
    BY <1>4, <1>5, <2>1 DEF Fresh, Found
  <2>3. QED
    BY <1>1, <1>3, <2>1, <2>2 DEF ListOK
<1>7. QED
  BY <1>1, <1>2, <1>3, <1>4, <1>6, ListsByOneNext

(* Every step keeps what is claimed of the list. *)
LEMMA StepLists == IInv /\ [Next]_vars => ListsInv'
<1>1. IInv /\ [Next]_vars /\ UNCHANGED <<listed, accept, conn, sess>> => ListsInv'
  BY QuietLists, StepTypeInv DEF IInv
<1>2. TimerSets \/ MainStep \/ UNCHANGED vars => UNCHANGED <<listed, accept, conn, sess>>
  BY DEF TimerSets, MainStep, MainWaits, MainWakes, MainChecks, MainAwaitsSessions, vars
<1>3. QED
  BY <1>1, <1>2, StepCases, AcceptLists, ConnLists, IdeLists, ExitLists
-----------------------------------------------------------------------------
(* The invariant. *)

(* The initial state has the inductive invariant, ... *)
LEMMA InitIInv == Init => IInv
<1> SUFFICES ASSUME Init PROVE IInv
  OBVIOUS
<1>1. TypeInv
  BY InitTypeInv
<1>2. /\ \A c \in Conns : /\ conn[c].link = "new" /\ conn[c].pc = "none" /\ conn[c].server = None
                          /\ conn[c].disconnected = FALSE
      /\ \A s \in Sess : /\ sess[s].pc = "idle" /\ sess[s].ide = "new" /\ sess[s].srv = "none"
                         /\ sess[s].found = None
      /\ registered = {} /\ accept.pc = "accept" /\ listed = <<>>
  BY DEF Init
<1>3. BusyInv /\ RegisteredWhileConnected /\ OwnerInv /\ OneServerEach
  BY <1>2 DEF BusyInv, RegisteredWhileConnected, OwnerInv, OwnerOK, OneServerEach
<1>4. ToSet(listed) = {} /\ Distinct(listed)
  BY <1>2 DEF ToSet, Distinct
<1>5. \A c \in Conns : ListOK(c)
  BY <1>2, <1>4, ServersConstants DEF ListOK, Found
<1>6. FreshInv /\ ListedAreLive
  BY <1>1, <1>2, <1>4, <1>5, ListsByOne DEF TypeInv, ListsInv
<1>7. QED
  BY <1>1, <1>3, <1>6 DEF IInv

(* ... every step keeps it, ... *)
LEMMA StepIInv == IInv /\ [Next]_vars => IInv'
<1>1. IInv /\ [Next]_vars => TypeInv'
  BY StepTypeInv DEF IInv
<1>2. QED
  BY <1>1, StepSessions, StepServers, StepLists DEF IInv, SessionsInv, ServersInv, ListsInv

(* ... so every execution has it. *)
LEMMA Invariance == Spec => []IInv
  BY InitIInv, StepIInv, PTL DEF Spec

(* Every variable stays in its type, and every thread has in its hand what *)
(* its next step needs (TypeOK of the model of servers.py, sessions.py).   *)
THEOREM Typing == Spec => []TypeOK
<1>1. IInv => TypeOK
  BY DEF IInv, TypeInv
<1>2. QED
  BY <1>1, Invariance, PTL

(* Whatever order the handlers of the IDE and of the server run in, a      *)
(* session is in the registry exactly while one of its components is       *)
(* connected (Session.register, Session.notify_changed).                   *)
THEOREM Registration == Spec => []RegisteredWhileConnected
<1>1. IInv => RegisteredWhileConnected
  BY DEF IInv
<1>2. QED
  BY <1>1, Invariance, PTL

(* However many IDEs find the same connection at the same time, it becomes *)
(* the server of one session, and a session with a connected server has    *)
(* its connection (Connection.attach_to_session, detach_from_session).     *)
THEOREM Attachment == Spec => []OneServerEach
<1>1. IInv => OneServerEach
  BY DEF IInv
<1>2. QED
  BY <1>1, Invariance, PTL

(* No connection stays listed after its disconnect() handler, or is listed *)
(* by Connection.__init__ afterwards; and Server.disconnect() finds its    *)
(* connection in the list.                                                 *)
THEOREM Listing == Spec => []ListedAreLive
<1>1. IInv => ListedAreLive
  BY DEF IInv
<1>2. QED
  BY <1>1, Invariance, PTL
=============================================================================
