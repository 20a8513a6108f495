-------------------------- MODULE OsHandlesProofs --------------------------
(***************************************************************************)
(* Theorems about the handles of the POSIX layer: who owns which           *)
(* descriptor, for any number of handles and any size of the kernel's      *)
(* table.                                                                  *)
(***************************************************************************)
EXTENDS OsHandles, TLAPS, WellFoundedInduction

LEMMA Constants ==
  /\ OS_INVALID_FD \notin Fd
  /\ NumFds \in Nat \ {0} /\ MAX_SELECTABLE_OBJS \in Nat \ {0}
  /\ \A s \in Socks : s \in Handles /\ s \notin Files
  /\ \A f \in Files : f \in Handles /\ f \notin Socks
BY OsHandlesAssumption DEF OS_INVALID_FD, Fd, Handles

-----------------------------------------------------------------------------
(* Types.                                                                  *)

FileRec == [fd : Fd \cup {OS_INVALID_FD}, mode : Mode]

SockRec ==
  [fd : Fd \cup {OS_INVALID_FD}, type : Type, domain : AddressDomain,
   is_open : BOOLEAN, is_bound : BOOLEAN]

KernelTypeOK == kernel \in [Fd -> Description]

HandleTypeOK ==
  /\ lost \in SUBSET Fd
  /\ reopened \in SUBSET Handles
  /\ file \in [Files -> FileRec]
  /\ sock \in [Socks -> SockRec]

SelectTypeOK ==
  /\ RdSet \in [Slots -> Fd \cup {OS_INVALID_FD, Unset}]
  /\ RdSetIdx \in 0..MAX_SELECTABLE_OBJS
  /\ MaxFd \in Fd \cup {OS_INVALID_FD}

LEMMA TypeParts == TypeOK <=> KernelTypeOK /\ HandleTypeOK /\ SelectTypeOK
BY DEF TypeOK, KernelTypeOK, HandleTypeOK, SelectTypeOK, FileRec, SockRec

LEMMA DescriptionTypes ==
  /\ \A access \in {"free", "read", "write"} : FileDescription(access) \in Description
  /\ \A domain \in AddressDomain, type \in Type : SockDescription(domain, type) \in Description
BY DEF FileDescription, SockDescription, Description, AddressDomain, Type

\* A change of some fields of a record leaves its type as it is.
MaybeFd == Fd \cup {OS_INVALID_FD}

LEMMA FileFd ==
  ASSUME NEW r \in FileRec, NEW fd \in MaybeFd
  PROVE  [r EXCEPT !.fd = fd] \in FileRec
BY DEF FileRec, MaybeFd

LEMMA FileNew ==
  ASSUME NEW fd \in MaybeFd, NEW mode \in Mode
  PROVE  [fd |-> fd, mode |-> mode] \in FileRec
BY DEF FileRec, MaybeFd

LEMMA NewTypes ==
  NewFile \in FileRec /\ NewSock \subseteq SockRec
BY DEF NewFile, NewSock, FileRec, SockRec, Mode

LEMMA SockFields ==
  ASSUME NEW r \in SockRec
  PROVE  r.domain \in AddressDomain /\ r.type \in Type
BY DEF SockRec

LEMMA SockFd ==
  ASSUME NEW r \in SockRec, NEW fd \in MaybeFd
  PROVE  [r EXCEPT !.fd = fd] \in SockRec
BY DEF SockRec, MaybeFd

LEMMA SockOpen ==
  ASSUME NEW r \in SockRec, NEW fd \in MaybeFd, NEW open \in BOOLEAN
  PROVE  [r EXCEPT !.fd = fd, !.is_open = open] \in SockRec
BY DEF SockRec, MaybeFd

LEMMA SockBound ==
  ASSUME NEW r \in SockRec, NEW bound \in BOOLEAN
  PROVE  [r EXCEPT !.is_bound = bound] \in SockRec
BY DEF SockRec, MaybeFd

LEMMA SockClosed ==
  ASSUME NEW r \in SockRec, NEW fd \in MaybeFd, NEW open \in BOOLEAN, NEW bound \in BOOLEAN
  PROVE  [r EXCEPT !.fd = fd, !.is_open = open, !.is_bound = bound] \in SockRec
BY DEF SockRec, MaybeFd

LEMMA SockTraits ==
  ASSUME NEW r \in SockRec, NEW type \in Type, NEW domain \in AddressDomain
  PROVE  [r EXCEPT !.type = type, !.domain = domain] \in SockRec
BY DEF SockRec

LEMMA DescriptionFields ==
  ASSUME NEW d \in Description, NEW port \in {"none", "any", "bound"}, NEW input \in BOOLEAN
  PROVE  /\ [d EXCEPT !.port = port] \in Description
         /\ [d EXCEPT !.input = input] \in Description
         /\ d.port \in {"none", "any", "bound"}
BY DEF Description

LEMMA FdTypes ==
  ASSUME HandleTypeOK, NEW h \in Handles
  PROVE  FdOf(h) \in Fd \cup {OS_INVALID_FD}
BY DEF HandleTypeOK, FdOf, Handles, FileRec, SockRec

LEMMA HistoryTypes ==
  ASSUME HandleTypeOK, NEW h \in Handles, Reopen(h) \/ End(h)
  PROVE  lost' \in SUBSET Fd /\ reopened' \in SUBSET Handles
BY FdTypes, Constants DEF Reopen, End, Lose, HandleTypeOK

LEMMA FileTypes ==
  ASSUME TypeOK, File
  PROVE  KernelTypeOK' /\ HandleTypeOK' /\ UNCHANGED selectVars
<1> USE TypeParts
<1> OS_INVALID_FD \in MaybeFd /\ Fd \subseteq MaybeFd
  BY DEF MaybeFd
<1>1. PICK f \in Files :
        \/ close_file(f) \/ replace_file(f)
        \/ \E mode \in Mode \ {"OPEN_NO_MODE"} : open_file(f, mode)
  BY DEF File
<1> f \in Handles
  BY Constants
<1>2. CASE close_file(f)
  <2>1. KernelTypeOK'
    BY <1>2, DescriptionTypes DEF close_file, Close, Free, KernelTypeOK
  <2>2. file' \in [Files -> FileRec]
    BY <1>2, NewTypes DEF close_file, HandleTypeOK
  <2>3. QED
    BY <1>2, <2>1, <2>2 DEF close_file, HandleTypeOK
<1>3. CASE replace_file(f)
  <2>1. file' \in [Files -> FileRec]
    BY <1>3, NewTypes DEF replace_file, HandleTypeOK
  <2>2. QED
    BY <1>3, <2>1, HistoryTypes DEF replace_file, HandleTypeOK, KernelTypeOK
<1>4. ASSUME NEW mode \in Mode \ {"OPEN_NO_MODE"}, open_file(f, mode)
      PROVE  KernelTypeOK' /\ HandleTypeOK' /\ UNCHANGED selectVars
  <2>1. lost' \in SUBSET Fd /\ reopened' \in SUBSET Handles
    BY <1>4, HistoryTypes DEF open_file
  <2>2. CASE file' = [file EXCEPT ![f].fd = OS_INVALID_FD] /\ UNCHANGED kernel
    <3>1. file' \in [Files -> FileRec]
      BY <2>2, FileFd DEF HandleTypeOK
    <3>2. QED
      BY <1>4, <2>1, <2>2, <3>1 DEF open_file, HandleTypeOK, KernelTypeOK
  <2>3. ASSUME NEW fd \in LowestFree,
               NEW access \in {"read", "write"},
               kernel' = [kernel EXCEPT ![fd] = FileDescription(access)],
               file' = [file EXCEPT ![f] = [fd |-> fd, mode |-> mode]]
        PROVE  KernelTypeOK' /\ HandleTypeOK'
    <3>1. KernelTypeOK'
      BY <2>3, DescriptionTypes DEF KernelTypeOK
    <3>2. fd \in MaybeFd /\ mode \in Mode
      BY DEF LowestFree
    <3>3. file' \in [Files -> FileRec]
      BY <2>3, <3>2, FileNew DEF HandleTypeOK
    <3>4. QED
      BY <1>4, <2>1, <3>1, <3>3 DEF open_file, HandleTypeOK
  <2>4. QED
    BY <1>4, <2>2, <2>3 DEF open_file
<1>5. QED
  BY <1>1, <1>2, <1>3, <1>4

LEMMA SockTypes ==
  ASSUME TypeOK, NEW s \in Socks,
         \/ open_sock(s) \/ close_sock(s) \/ replace_sock(s)
         \/ bind(s) \/ ReceiveInput(s) \/ send(s)
         \/ \E type \in Type, domain \in AddressDomain : set_traits(s, type, domain)
  PROVE  KernelTypeOK' /\ HandleTypeOK' /\ UNCHANGED selectVars
<1> USE TypeParts
<1> s \in Handles
  BY Constants
<1> OS_INVALID_FD \in MaybeFd /\ Fd \subseteq MaybeFd
  BY DEF MaybeFd
<1>1. CASE open_sock(s)
  <2>1. lost' \in SUBSET Fd /\ reopened' \in SUBSET Handles
    BY <1>1, HistoryTypes DEF open_sock
  <2>2. CASE sock' = [sock EXCEPT ![s].fd = OS_INVALID_FD] /\ UNCHANGED kernel
    <3>1. sock' \in [Socks -> SockRec]
      BY <2>2, SockFd DEF HandleTypeOK
    <3>2. QED
      BY <1>1, <2>1, <2>2, <3>1 DEF open_sock, HandleTypeOK, KernelTypeOK
  <2>3. ASSUME NEW fd \in LowestFree,
               kernel' = [kernel EXCEPT ![fd] = SockDescription(sock[s].domain, sock[s].type)],
               sock' = [sock EXCEPT ![s].fd = fd, ![s].is_open = TRUE]
        PROVE  KernelTypeOK' /\ HandleTypeOK'
    <3>1. sock[s].domain \in AddressDomain /\ sock[s].type \in Type
      BY SockFields DEF HandleTypeOK
    <3>2. KernelTypeOK'
      BY <2>3, <3>1, DescriptionTypes DEF KernelTypeOK
    <3>3. fd \in MaybeFd
      BY DEF LowestFree
    <3>4. sock' \in [Socks -> SockRec]
      BY <2>3, <3>3, SockOpen DEF HandleTypeOK
    <3>5. QED
      BY <1>1, <2>1, <3>2, <3>4 DEF open_sock, HandleTypeOK
  <2>4. QED
    BY <1>1, <2>2, <2>3 DEF open_sock
<1>2. CASE close_sock(s)
  <2>1. KernelTypeOK'
    BY <1>2, DescriptionTypes DEF close_sock, Close, Free, KernelTypeOK
  <2>2. PICK fd \in MaybeFd :
          sock' = [sock EXCEPT ![s].fd = fd, ![s].is_open = FALSE, ![s].is_bound = FALSE]
    <3>1. sock[s].fd \in MaybeFd
      BY DEF HandleTypeOK, SockRec, MaybeFd
    <3>2. QED
      BY <1>2, <3>1 DEF close_sock
  <2>3. sock' \in [Socks -> SockRec]
    BY <2>2, SockClosed DEF HandleTypeOK
  <2>4. QED
    BY <1>2, <2>1, <2>3 DEF close_sock, HandleTypeOK
<1>3. CASE bind(s)
  <2>1. KernelTypeOK'
    BY <1>3, DescriptionFields DEF bind, CanBind, IsOpen, KernelTypeOK
  <2>2. sock' \in [Socks -> SockRec]
    BY <1>3, SockBound DEF bind, HandleTypeOK
  <2>3. QED
    BY <1>3, <2>1, <2>2 DEF bind, HandleTypeOK
<1>4. CASE ReceiveInput(s)
  BY <1>4, DescriptionFields DEF ReceiveInput, handleVars, KernelTypeOK, HandleTypeOK
<1>5. CASE send(s)
  <2>1. kernel[sock[s].fd] \in Description
    BY <1>5 DEF send, IsOpen, KernelTypeOK
  <2>2. KernelTypeOK'
    BY <1>5, <2>1, DescriptionFields DEF send, KernelTypeOK
  <2>3. QED
    BY <1>5, <2>2 DEF send, handleVars, HandleTypeOK
<1>6. ASSUME NEW type \in Type, NEW domain \in AddressDomain, set_traits(s, type, domain)
      PROVE  KernelTypeOK' /\ HandleTypeOK' /\ UNCHANGED selectVars
  <2>1. sock' \in [Socks -> SockRec]
    BY <1>6, SockTraits DEF set_traits, HandleTypeOK
  <2>2. QED
    BY <1>6, <2>1 DEF set_traits, KernelTypeOK, HandleTypeOK
<1>7. CASE replace_sock(s)
  <2>1. sock' \in [Socks -> SockRec]
    BY <1>7, NewTypes DEF replace_sock, HandleTypeOK
  <2>2. QED
    BY <1>7, <2>1, HistoryTypes DEF replace_sock, HandleTypeOK, KernelTypeOK
<1>8. QED
  BY <1>1, <1>2, <1>3, <1>4, <1>5, <1>6, <1>7

\* Every change of a socket has one of these forms.
LEMMA SockForms ==
  ASSUME TypeOK, Sock
  PROVE  \E s \in Socks :
           \/ open_sock(s) \/ close_sock(s) \/ replace_sock(s)
           \/ bind(s) \/ ReceiveInput(s) \/ send(s)
           \/ \E type \in Type, domain \in AddressDomain : set_traits(s, type, domain)
<1>1. \A s \in Socks : sock[s].domain \in AddressDomain /\ sock[s].type \in Type
  BY TypeParts, SockFields DEF HandleTypeOK
<1>2. QED
  BY <1>1 DEF Sock

LEMMA ArriveTypes ==
  ASSUME TypeOK, Arrive
  PROVE  KernelTypeOK' /\ HandleTypeOK' /\ UNCHANGED selectVars
<1>1. PICK fd \in Fd : kernel' = [kernel EXCEPT ![fd].input = TRUE]
  BY DEF Arrive
<1>2. KernelTypeOK'
  BY <1>1, TypeParts, DescriptionFields DEF KernelTypeOK
<1>3. QED
  BY <1>2, TypeParts DEF Arrive, handleVars, HandleTypeOK

\* Integers below a limit have a greatest one among them: the least of their
\* distances from the limit is that of the greatest.
LEMMA LeastNatural ==
  ASSUME NEW T, T \subseteq Nat, T # {}
  PROVE  \E x \in T : \A y \in T : x <= y
<1> DEFINE R == {ss \in Nat \X Nat : ss[1] < ss[2]}
<1>1. IsWellFoundedOn(R, Nat)
  BY NatLessThanWellFounded DEF OpToRel
<1>2. \A x, y \in Nat : y < x => <<y, x>> \in R
  OBVIOUS
<1> HIDE DEF R
<1>3. PICK x \in T : \A y \in T : <<y, x>> \notin R
  BY <1>1, WFMin
<1>4. \A y \in T : ~(y < x)
  BY <1>2, <1>3
<1>5. QED
  BY <1>3, <1>4

LEMMA GreatestBelow ==
  ASSUME NEW n \in Int, NEW T, T \subseteq {k \in Int : k < n}, T # {}
  PROVE  \E x \in T : \A y \in T : y <= x
<1> DEFINE N == {n - k : k \in T}
<1>1. N \subseteq Nat /\ N # {}
  OBVIOUS
<1>2. PICK m \in N : \A k \in N : m <= k
  BY <1>1, LeastNatural
<1>3. PICK x \in T : m = n - x
  OBVIOUS
<1>4. \A y \in T : n - y \in N /\ n - x <= n - y
  BY <1>2, <1>3
<1>5. \A y \in T : y \in Int /\ x \in Int
  OBVIOUS
<1>6. QED
  BY <1>4, <1>5

\* The highest of the watched descriptors and of what was the highest before is
\* one of them, when no entry that was never written is among them.
WrittenEntries == \A n \in 0..(RdSetIdx - 1) : RdSet[n] \in Fd \cup {OS_INVALID_FD}

LEMMA MaxFdIsMaximal ==
  ASSUME SelectTypeOK, WrittenEntries
  PROVE  /\ NewMaxFd \in Fd \cup {OS_INVALID_FD}
         /\ \A fd \in Watched \cup {MaxFd} : fd <= NewMaxFd
<1> DEFINE T == Watched \cup {MaxFd}
<1>1. T \subseteq Fd \cup {OS_INVALID_FD} /\ T # {}
  BY DEF Watched, SelectTypeOK, WrittenEntries
<1>2. Fd \cup {OS_INVALID_FD} \subseteq {k \in Int : k < NumFds}
  BY Constants DEF Fd, OS_INVALID_FD
<1> HIDE DEF T
<1>3. \E max \in T : \A fd \in T : fd <= max
  BY <1>1, <1>2, Constants, GreatestBelow
<1>4. NewMaxFd \in T /\ \A fd \in T : fd <= NewMaxFd
  BY <1>3 DEF NewMaxFd, T
<1>5. QED
  BY <1>1, <1>4 DEF T

LEMMA SelectTypes ==
  ASSUME TypeOK, WrittenEntries, Select
  PROVE  KernelTypeOK' /\ HandleTypeOK' /\ SelectTypeOK' /\ WrittenEntries'
<1> USE TypeParts
<1>1. ASSUME NEW s \in Socks, add_fd(sock[s].fd)
      PROVE  KernelTypeOK' /\ HandleTypeOK' /\ SelectTypeOK' /\ WrittenEntries'
  <2>1. sock[s].fd \in Fd \cup {OS_INVALID_FD}
    BY DEF HandleTypeOK, SockRec
  <2>2. RdSetIdx \in Slots /\ RdSetIdx' \in 0..MAX_SELECTABLE_OBJS
    BY <1>1, Constants DEF add_fd, SelectTypeOK, Slots
  <2>3. SelectTypeOK'
    BY <1>1, <2>1, <2>2 DEF add_fd, SelectTypeOK
  <2>4. WrittenEntries'
    BY <1>1, <2>1, <2>2, Constants DEF add_fd, SelectTypeOK, WrittenEntries, Slots
  <2>5. QED
    BY <1>1, <2>3, <2>4 DEF add_fd, handleVars, KernelTypeOK, HandleTypeOK
<1>2. CASE read_wait
  BY <1>2, MaxFdIsMaximal
     DEF read_wait, handleVars, KernelTypeOK, HandleTypeOK, SelectTypeOK, WrittenEntries
<1>3. CASE clear_set
  <2>1. SelectTypeOK'
    BY <1>3, Constants DEF clear_set, SelectTypeOK
  <2>2. WrittenEntries'
    BY <1>3 DEF clear_set, WrittenEntries
  <2>3. QED
    BY <1>3, <2>1, <2>2 DEF clear_set, handleVars, KernelTypeOK, HandleTypeOK
<1>4. QED
  BY <1>1, <1>2, <1>3 DEF Select

TypeInv == TypeOK /\ WrittenEntries

LEMMA TypeInvInit == Init => TypeInv
<1>1. Init => KernelTypeOK
  BY DescriptionTypes DEF Init, KernelTypeOK, Free
<1>2. Init => HandleTypeOK
  <2>1. Init => file \in [Files -> FileRec]
    BY NewTypes DEF Init
  <2>2. Init => sock \in [Socks -> SockRec]
    BY NewTypes DEF Init
  <2>3. QED
    BY <2>1, <2>2 DEF Init, HandleTypeOK
<1>3. Init => SelectTypeOK /\ WrittenEntries
  BY Constants DEF Init, SelectTypeOK, WrittenEntries
<1>4. QED
  BY <1>1, <1>2, <1>3, TypeParts DEF TypeInv

LEMMA TypeInvStep ==
  ASSUME TypeInv, [Next]_vars
  PROVE  TypeInv'
<1>1. ASSUME KernelTypeOK', HandleTypeOK', UNCHANGED selectVars
      PROVE  TypeInv'
  BY <1>1, TypeParts DEF TypeInv, selectVars, SelectTypeOK, WrittenEntries, TypeOK,
     KernelTypeOK, HandleTypeOK, FileRec, SockRec
<1>2. CASE File
  BY <1>1, <1>2, FileTypes DEF TypeInv
<1>3. CASE Sock
  BY <1>1, <1>3, SockForms, SockTypes DEF TypeInv
<1>4. CASE Arrive
  BY <1>1, <1>4, ArriveTypes DEF TypeInv
<1>5. CASE Select
  BY <1>5, SelectTypes DEF TypeInv, TypeOK, KernelTypeOK, HandleTypeOK, SelectTypeOK,
     FileRec, SockRec
<1>6. CASE UNCHANGED vars
  BY <1>6 DEF vars, handleVars, TypeInv, TypeOK, WrittenEntries
<1>7. QED
  BY <1>2, <1>3, <1>4, <1>5, <1>6 DEF Next

LEMMA TypeInvHolds == Spec => []TypeInv
BY TypeInvInit, TypeInvStep, PTL DEF Spec

\* Type correctness; with it, that no entry of a Select in use is one that was
\* never written, and that MaxFd is a descriptor or none.
THEOREM TypeCorrect == Spec => []TypeOK
<1>1. TypeInv => TypeOK
  BY DEF TypeInv
<1>2. QED
  BY <1>1, TypeInvHolds, PTL

-----------------------------------------------------------------------------
(* What read_wait says. MaxFd is no less than any watched descriptor, so   *)
(* the kernel looks at all of them.                                        *)

LEMMA EveryWatchedIsLookedAt ==
  ASSUME TypeInv
  PROVE  Looked(NewMaxFd) = Watched
<1>1. \A fd \in Watched : fd <= NewMaxFd
  BY TypeParts, MaxFdIsMaximal DEF TypeInv
<1>2. Watched \subseteq Int /\ NewMaxFd \in Int
  BY TypeParts, MaxFdIsMaximal DEF TypeInv, WrittenEntries, Watched, Fd, OS_INVALID_FD
<1>3. \A fd \in Watched : fd < NewMaxFd + 1
  <2>1. \A k, n \in Int : k <= n => k < n + 1
    OBVIOUS
  <2>2. QED
    BY <1>1, <1>2, <2>1
<1>4. QED
  BY <1>3, Zenon DEF Looked

\* read_wait reports exactly the watched descriptors with input, times out only if
\* there are none, and fails if one was closed, for any number of entries and
\* descriptors, and although select may fail for other reasons (Select.cpp:57).
THEOREM ReadWaitIsRight == Spec => []WaitTellsTheTruth
<1>1. TypeInv => WaitTellsTheTruth
  <2> SUFFICES ASSUME TypeInv, NEW res \in WaitResults
               PROVE  /\ (\E fd \in Watched : ~IsOpen(fd)) => res.status = "INVALID_FD"
                      /\ res.status # "INVALID_FD" =>
                           res.fds \ {OS_INVALID_FD} = {fd \in Watched : HasInput(fd)}
                      /\ res.status = "OK" <=> res.fds \ {OS_INVALID_FD} # {}
    BY DEF WaitTellsTheTruth
  <2> DEFINE ready == {fd \in Watched : HasInput(fd)}
  <2>1. OS_INVALID_FD \notin ready
    BY DEF Watched
  <2>2. \A junk \in Junk : junk \ {OS_INVALID_FD} = {}
    BY DEF Junk
  <2>3. CASE res = [status |-> "INVALID_FD", fds |-> {}]
    BY <2>3
  <2>4. CASE res # [status |-> "INVALID_FD", fds |-> {}]
    <3>1. /\ \A fd \in Watched : IsOpen(fd)
          /\ res \in IF ready = {} THEN {[status |-> "TIMEOUT", fds |-> {}]}
                    ELSE {[status |-> "OK", fds |-> ready \cup junk] : junk \in Junk}
      BY <2>4, EveryWatchedIsLookedAt DEF WaitResults
    <3>2. CASE ready = {}
      BY <3>1, <3>2
    <3>3. CASE ready # {}
      <4>1. PICK junk \in Junk : res = [status |-> "OK", fds |-> ready \cup junk]
        BY <3>1, <3>3
      <4>2. res.status = "OK" /\ res.fds = ready \cup junk
        BY <4>1
      <4>3. (ready \cup junk) \ {OS_INVALID_FD} = ready
        BY <2>1, <2>2
      <4>4. QED
        BY <3>1, <3>3, <4>2, <4>3
    <3>4. QED
      BY <3>2, <3>3
  <2>5. QED
    BY <2>3, <2>4
<1>2. QED
  BY <1>1, TypeInvHolds, PTL

-----------------------------------------------------------------------------
(* Who has which descriptor. What the kernel gives out is free, so nobody  *)
(* has it; a handle takes its number out of the object before anybody else *)
(* can be given it, or the number is lost and is never given out again.    *)

\* DescriptorsAreHeldOrLost, descriptor by descriptor.
Accounted ==
  /\ \A fd \in Fd : IsOpen(fd) <=> fd \in lost \/ \E h \in Handles : FdOf(h) = fd
  /\ \A h \in Handles : FdOf(h) \notin lost

Ownership == NoSharedDescriptor /\ Accounted

DescInv ==
  /\ TypeInv
  /\ Ownership
  /\ HandleKnowsItsDescriptor

LEMMA TypeInvParts == TypeInv => KernelTypeOK /\ HandleTypeOK
BY TypeParts DEF TypeInv

LEMMA OpeningKeepsOwnership ==
  ASSUME HandleTypeOK, Ownership, NEW h \in Handles, NEW new \in Fd, ~IsOpen(new),
         lost' = lost \cup ({FdOf(h)} \ {OS_INVALID_FD}),
         FdOf(h)' = new,
         \A g \in Handles \ {h} : FdOf(g)' = FdOf(g),
         \A fd \in Fd : IsOpen(fd)' <=> IsOpen(fd) \/ fd = new
  PROVE  Ownership'
<1>1. \A g \in Handles : FdOf(g) \in Fd \cup {OS_INVALID_FD}
  BY FdTypes
<1>2. \A g \in Handles : FdOf(g) # new
  BY DEF Ownership, Accounted
<1>3. new \notin lost /\ new # OS_INVALID_FD
  BY Constants DEF Ownership, Accounted
<1>4. NoSharedDescriptor'
  BY <1>2 DEF Ownership, NoSharedDescriptor
<1>5. \A g \in Handles : FdOf(g)' \notin lost'
  BY <1>2, <1>3 DEF Ownership, Accounted, NoSharedDescriptor, HandleTypeOK
<1>6. \A fd \in Fd : IsOpen(fd)' <=> fd \in lost' \/ \E g \in Handles : FdOf(g)' = fd
  BY <1>1, Constants DEF Ownership, Accounted
<1>7. QED
  BY <1>4, <1>5, <1>6 DEF Ownership, Accounted

LEMMA FailureKeepsOwnership ==
  ASSUME HandleTypeOK, Ownership, NEW h \in Handles,
         lost' = lost \cup ({FdOf(h)} \ {OS_INVALID_FD}),
         FdOf(h)' = OS_INVALID_FD,
         \A g \in Handles \ {h} : FdOf(g)' = FdOf(g),
         kernel' = kernel
  PROVE  Ownership'
<1>1. \A g \in Handles : FdOf(g) \in Fd \cup {OS_INVALID_FD}
  BY FdTypes
<1>2. NoSharedDescriptor'
  BY DEF Ownership, NoSharedDescriptor
<1>3. \A g \in Handles : FdOf(g)' \notin lost'
  BY Constants DEF Ownership, Accounted, NoSharedDescriptor, HandleTypeOK
<1>4. \A fd \in Fd : IsOpen(fd)' <=> fd \in lost' \/ \E g \in Handles : FdOf(g)' = fd
  BY <1>1, Constants DEF Ownership, Accounted, IsOpen
<1>5. QED
  BY <1>2, <1>3, <1>4 DEF Ownership, Accounted

LEMMA ClosingKeepsOwnership ==
  ASSUME HandleTypeOK, Ownership, NEW h \in Handles,
         lost' = lost,
         FdOf(h)' = OS_INVALID_FD,
         \A g \in Handles \ {h} : FdOf(g)' = FdOf(g),
         \A fd \in Fd : IsOpen(fd)' <=> IsOpen(fd) /\ fd # FdOf(h)
  PROVE  Ownership'
<1>1. NoSharedDescriptor'
  BY DEF Ownership, NoSharedDescriptor
<1>2. \A g \in Handles : FdOf(g)' \notin lost'
  BY Constants DEF Ownership, Accounted, HandleTypeOK
<1>3. \A fd \in Fd : IsOpen(fd)' <=> fd \in lost' \/ \E g \in Handles : FdOf(g)' = fd
  BY Constants DEF Ownership, Accounted, NoSharedDescriptor
<1>4. QED
  BY <1>1, <1>2, <1>3 DEF Ownership, Accounted

LEMMA NothingChangesHands ==
  ASSUME Ownership, lost' = lost,
         \A g \in Handles : FdOf(g)' = FdOf(g),
         \A fd \in Fd : IsOpen(fd)' <=> IsOpen(fd)
  PROVE  Ownership'
BY DEF Ownership, NoSharedDescriptor, Accounted

DescGoal == Ownership' /\ HandleKnowsItsDescriptor'

\* What the kernel says of a handle's descriptor, and the handle itself, are as
\* they were, for all handles but those of a set.
Untouched(S) ==
  \A g \in Handles \ S :
    /\ g \in Files => file'[g] = file[g]
    /\ g \in Socks => sock'[g] = sock[g]
    /\ g \in reopened' <=> g \in reopened
    /\ FdOf(g) # OS_INVALID_FD => kernel'[FdOf(g)] = kernel[FdOf(g)]

LEMMA UntouchedFds ==
  ASSUME NEW S, Untouched(S), NEW g \in Handles \ S
  PROVE  FdOf(g)' = FdOf(g)
BY DEF Untouched, FdOf, Handles

\* HandleKnowsItsDescriptor, for one handle.
FileFits(f) ==
  /\ file[f].fd # OS_INVALID_FD =>
       /\ kernel[file[f].fd].kind = IF file[f].mode = "OPEN_READ" THEN "read" ELSE "write"
       /\ file[f].mode # "OPEN_NO_MODE"
  /\ f \notin reopened /\ file[f].fd = OS_INVALID_FD => file[f].mode = "OPEN_NO_MODE"

SockFits(s) ==
  /\ sock[s].fd # OS_INVALID_FD =>
       /\ kernel[sock[s].fd].kind = "socket"
       /\ kernel[sock[s].fd].type = sock[s].type
       /\ kernel[sock[s].fd].domain = sock[s].domain
       /\ sock[s].is_open
       /\ kernel[sock[s].fd].port = "bound" => sock[s].is_bound
  /\ s \notin reopened =>
       /\ sock[s].is_open => sock[s].fd # OS_INVALID_FD
       /\ sock[s].is_bound => sock[s].is_open /\ kernel[sock[s].fd].port = "bound"

LEMMA Fits ==
  HandleKnowsItsDescriptor <=> (\A f \in Files : FileFits(f)) /\ (\A s \in Socks : SockFits(s))
BY DEF HandleKnowsItsDescriptor, FileFits, SockFits

LEMMA FitsAfter ==
  HandleKnowsItsDescriptor' <=> (\A f \in Files : FileFits(f)') /\ (\A s \in Socks : SockFits(s)')
BY DEF HandleKnowsItsDescriptor, FileFits, SockFits

LEMMA UntouchedFit ==
  ASSUME HandleTypeOK, HandleKnowsItsDescriptor, NEW h, Untouched({h}),
         h \in Files => FileFits(h)',
         h \in Socks => SockFits(h)'
  PROVE  HandleKnowsItsDescriptor'
<1>1. ASSUME NEW f \in Files
      PROVE  FileFits(f)'
  BY Fits, Constants DEF Untouched, FileFits, FdOf
<1>2. ASSUME NEW s \in Socks
      PROVE  SockFits(s)'
  <2>1. SockFits(s) /\ s \in Handles /\ FdOf(s) = sock[s].fd
    BY Fits, Constants DEF FdOf
  <2>2. CASE s = h
    BY <2>2
  <2>3. CASE s # h
    <3>1. /\ sock'[s] = sock[s] /\ (s \in reopened' <=> s \in reopened)
          /\ sock[s].fd # OS_INVALID_FD => kernel'[sock[s].fd] = kernel[sock[s].fd]
      BY <2>1, <2>3 DEF Untouched
    <3>2. sock[s].is_open \in BOOLEAN /\ sock[s].is_bound \in BOOLEAN
      BY DEF HandleTypeOK, SockRec
    <3>3. QED
      BY <2>1, <3>1, <3>2 DEF SockFits
  <2>4. QED
    BY <2>2, <2>3
<1>3. QED
  BY <1>1, <1>2, FitsAfter

\* A handle that loses its descriptor, or had none, and has none afterwards: a
\* failed open, or the end of the object.
LEMMA LosingKeepsOwnership ==
  ASSUME HandleTypeOK, Ownership, NEW h \in Handles, Reopen(h) \/ End(h),
         kernel' = kernel, FdOf(h)' = OS_INVALID_FD, Untouched({h})
  PROVE  Ownership'
<1>1. lost' = lost \cup ({FdOf(h)} \ {OS_INVALID_FD})
  BY DEF Reopen, End, Lose
<1>2. QED
  BY <1>1, UntouchedFds, FailureKeepsOwnership

LEMMA OpenFileKeepsDesc ==
  ASSUME DescInv, NEW f \in Files, NEW mode \in Mode \ {"OPEN_NO_MODE"}, open_file(f, mode)
  PROVE  DescGoal
<1> USE Constants
<1>1. /\ KernelTypeOK /\ HandleTypeOK /\ Ownership /\ HandleKnowsItsDescriptor
      /\ f \in Handles /\ FdOf(f) = file[f].fd
  BY TypeInvParts DEF DescInv, FdOf
<1>2. /\ Reopen(f) /\ sock' = sock
      /\ lost' = lost \cup ({FdOf(f)} \ {OS_INVALID_FD})
      /\ reopened' = IF FdOf(f) = OS_INVALID_FD THEN reopened ELSE reopened \cup {f}
  BY DEF open_file, Reopen, Lose
<1>3. CASE file' = [file EXCEPT ![f].fd = OS_INVALID_FD] /\ kernel' = kernel
  <2>1. Untouched({f})
    BY <1>1, <1>2, <1>3 DEF Untouched, HandleTypeOK
  <2>2. /\ file'[f].fd = OS_INVALID_FD /\ FdOf(f)' = OS_INVALID_FD
        /\ file'[f].mode = file[f].mode
    BY <1>1, <1>3 DEF HandleTypeOK, FileRec, FdOf
  <2>3. Ownership'
    BY <1>1, <1>2, <1>3, <2>1, <2>2, LosingKeepsOwnership
  <2>4. FileFits(f)
    BY <1>1, Fits
  <2>5. FileFits(f)'
    BY <1>1, <1>2, <2>2, <2>4 DEF FileFits
  <2>6. HandleKnowsItsDescriptor'
    BY <1>1, <2>1, <2>5, UntouchedFit
  <2>7. QED
    BY <2>3, <2>6 DEF DescGoal
<1>4. ASSUME NEW fd \in LowestFree,
             kernel' = [kernel EXCEPT ![fd] =
               FileDescription(IF mode = "OPEN_READ" THEN "read" ELSE "write")],
             file' = [file EXCEPT ![f] = [fd |-> fd, mode |-> mode]]
      PROVE  DescGoal
  <2> DEFINE access == IF mode = "OPEN_READ" THEN "read" ELSE "write"
  <2>1. fd \in Fd /\ ~IsOpen(fd) /\ fd # OS_INVALID_FD
    BY DEF LowestFree
  <2>2. \A g \in Handles : FdOf(g) # fd
    BY <1>1, <2>1 DEF Ownership, Accounted
  <2>3. Untouched({f})
    BY <1>1, <1>2, <1>4, <2>1, <2>2 DEF Untouched, HandleTypeOK, KernelTypeOK
  <2>4. /\ file'[f].fd = fd /\ file'[f].mode = mode
        /\ FdOf(f)' = fd
        /\ kernel'[fd].kind = access
    BY <1>1, <1>4, <2>1 DEF HandleTypeOK, KernelTypeOK, FdOf, FileDescription
  <2>5. \A d \in Fd : IsOpen(d)' <=> IsOpen(d) \/ d = fd
    BY <1>1, <1>4, <2>1, <2>4 DEF IsOpen, KernelTypeOK
  <2>6. Ownership'
    BY <1>1, <1>2, <2>1, <2>3, <2>4, <2>5, UntouchedFds, OpeningKeepsOwnership
  <2>7. FileFits(f)'
    BY <2>1, <2>4 DEF FileFits
  <2>8. HandleKnowsItsDescriptor'
    BY <1>1, <2>3, <2>7, UntouchedFit
  <2>9. QED
    BY <2>6, <2>8 DEF DescGoal
<1>5. QED
  BY <1>3, <1>4 DEF open_file

LEMMA CloseFileKeepsDesc ==
  ASSUME DescInv, NEW f \in Files, close_file(f)
  PROVE  DescGoal
<1> USE Constants
<1>1. /\ KernelTypeOK /\ HandleTypeOK /\ Ownership /\ HandleKnowsItsDescriptor
      /\ f \in Handles /\ FdOf(f) = file[f].fd
  BY TypeInvParts DEF DescInv, FdOf
<1>2. \A g \in Handles \ {f} :
        FdOf(g) \in Fd \cup {OS_INVALID_FD} /\ (FdOf(g) # OS_INVALID_FD => FdOf(g) # FdOf(f))
  BY <1>1, FdTypes DEF Ownership, NoSharedDescriptor
<1>3. /\ file' = [file EXCEPT ![f] = NewFile]
      /\ sock' = sock /\ lost' = lost /\ reopened' = reopened \ {f}
      /\ FdOf(f) \in Fd
      /\ kernel' = [kernel EXCEPT ![FdOf(f)] = Free]
  BY <1>1, FdTypes DEF close_file, Close
<1>4. Untouched({f})
  BY <1>1, <1>2, <1>3 DEF Untouched, HandleTypeOK, KernelTypeOK
<1>5. /\ file'[f].fd = OS_INVALID_FD /\ file'[f].mode = "OPEN_NO_MODE"
      /\ FdOf(f)' = OS_INVALID_FD
  BY <1>1, <1>3 DEF HandleTypeOK, FdOf, NewFile
<1>6. \A fd \in Fd : IsOpen(fd)' <=> IsOpen(fd) /\ fd # FdOf(f)
  BY <1>1, <1>3 DEF IsOpen, KernelTypeOK, Free, FileDescription
<1>7. Ownership'
  BY <1>1, <1>3, <1>4, <1>5, <1>6, UntouchedFds, ClosingKeepsOwnership
<1>8. HandleKnowsItsDescriptor'
  BY <1>1, <1>4, <1>5, UntouchedFit DEF FileFits
<1>9. QED
  BY <1>7, <1>8 DEF DescGoal

LEMMA ReplacingKeepsDesc ==
  ASSUME DescInv, NEW h \in Handles,
         \/ h \in Files /\ replace_file(h)
         \/ h \in Socks /\ replace_sock(h)
  PROVE  DescGoal
<1> USE Constants
<1>1. KernelTypeOK /\ HandleTypeOK /\ Ownership /\ HandleKnowsItsDescriptor
  BY TypeInvParts DEF DescInv
<1>2. End(h) /\ kernel' = kernel /\ reopened' = reopened \ {h}
  BY DEF replace_file, replace_sock, End
<1>3. CASE h \in Files /\ replace_file(h)
  <2>1. /\ file'[h] = NewFile /\ sock' = sock
        /\ \A g \in Files \ {h} : file'[g] = file[g]
    BY <1>1, <1>3 DEF replace_file, HandleTypeOK
  <2>2. Untouched({h}) /\ FdOf(h)' = OS_INVALID_FD
    BY <1>2, <1>3, <2>1 DEF Untouched, FdOf, NewFile
  <2>3. FileFits(h)'
    BY <2>1 DEF FileFits, NewFile
  <2>4. QED
    BY <1>1, <1>2, <1>3, <2>2, <2>3, LosingKeepsOwnership, UntouchedFit DEF DescGoal
<1>4. CASE h \in Socks /\ replace_sock(h)
  <2>1. /\ sock'[h] \in NewSock /\ file' = file
        /\ \A g \in Socks \ {h} : sock'[g] = sock[g]
    BY <1>1, <1>4 DEF replace_sock, HandleTypeOK
  <2>2. /\ sock'[h].fd = OS_INVALID_FD
        /\ sock'[h].is_open = FALSE /\ sock'[h].is_bound = FALSE
    BY <2>1 DEF NewSock
  <2>3. Untouched({h}) /\ FdOf(h)' = OS_INVALID_FD
    BY <1>2, <1>4, <2>1, <2>2 DEF Untouched, FdOf
  <2>4. SockFits(h)'
    BY <2>2 DEF SockFits
  <2>5. QED
    BY <1>1, <1>2, <1>4, <2>3, <2>4, LosingKeepsOwnership, UntouchedFit DEF DescGoal
<1>5. QED
  BY <1>3, <1>4

LEMMA FileKeepsDesc ==
  ASSUME DescInv, File
  PROVE  DescGoal
<1>1. PICK f \in Files :
        \/ close_file(f) \/ replace_file(f)
        \/ \E mode \in Mode \ {"OPEN_NO_MODE"} : open_file(f, mode)
  BY DEF File
<1>2. CASE close_file(f)
  BY <1>2, CloseFileKeepsDesc
<1>3. CASE replace_file(f)
  BY <1>3, ReplacingKeepsDesc, Constants
<1>4. ASSUME NEW mode \in Mode \ {"OPEN_NO_MODE"}, open_file(f, mode)
      PROVE  DescGoal
  BY <1>4, OpenFileKeepsDesc
<1>5. QED
  BY <1>1, <1>2, <1>3, <1>4

\* A change of what is known of one descriptor, open before and after.
LEMMA ChangedDescription ==
  ASSUME DescInv, NEW fd \in Fd, IsOpen(fd), NEW d \in Description,
         kernel' = [kernel EXCEPT ![fd] = d],
         d.kind = kernel[fd].kind,
         lost' = lost, file' = file,
         \A h \in Handles : FdOf(h)' = FdOf(h)
  PROVE  Ownership'
<1>1. Ownership /\ KernelTypeOK
  BY TypeInvParts DEF DescInv
<1>2. \A k \in Fd : IsOpen(k)' <=> IsOpen(k)
  BY <1>1 DEF IsOpen, KernelTypeOK
<1>3. QED
  BY <1>1, <1>2, NothingChangesHands

LEMMA OpenSockKeepsDesc ==
  ASSUME DescInv, NEW s \in Socks, open_sock(s)
  PROVE  DescGoal
<1> USE Constants
<1>1. /\ KernelTypeOK /\ HandleTypeOK /\ Ownership /\ HandleKnowsItsDescriptor
      /\ s \in Handles /\ FdOf(s) = sock[s].fd
      /\ sock[s].domain \in AddressDomain /\ sock[s].type \in Type
  BY TypeInvParts, SockFields DEF DescInv, FdOf, HandleTypeOK
<1>2. /\ Reopen(s) /\ file' = file
      /\ lost' = lost \cup ({FdOf(s)} \ {OS_INVALID_FD})
      /\ reopened' = IF FdOf(s) = OS_INVALID_FD THEN reopened ELSE reopened \cup {s}
  BY DEF open_sock, Reopen, Lose
<1> SockFits(s)
  BY <1>1, Fits
<1>3. CASE sock' = [sock EXCEPT ![s].fd = OS_INVALID_FD] /\ kernel' = kernel
  <2>1. Untouched({s})
    BY <1>1, <1>2, <1>3 DEF Untouched, HandleTypeOK
  <2>2. /\ sock'[s].fd = OS_INVALID_FD /\ FdOf(s)' = OS_INVALID_FD
        /\ sock'[s].is_open = sock[s].is_open /\ sock'[s].is_bound = sock[s].is_bound
    BY <1>1, <1>3 DEF HandleTypeOK, SockRec, FdOf
  <2>3. Ownership'
    BY <1>1, <1>2, <1>3, <2>1, <2>2, LosingKeepsOwnership
  <2>4. s \notin reopened' => ~sock'[s].is_open /\ ~sock'[s].is_bound
    BY <1>1, <1>2, <2>2 DEF SockFits
  <2>5. SockFits(s)'
    BY <2>2, <2>4 DEF SockFits
  <2>6. HandleKnowsItsDescriptor'
    BY <1>1, <2>1, <2>5, UntouchedFit
  <2>7. QED
    BY <2>3, <2>6 DEF DescGoal
<1>4. ASSUME NEW fd \in LowestFree,
             kernel' = [kernel EXCEPT ![fd] = SockDescription(sock[s].domain, sock[s].type)],
             sock' = [sock EXCEPT ![s].fd = fd, ![s].is_open = TRUE]
      PROVE  DescGoal
  <2>1. fd \in Fd /\ ~IsOpen(fd) /\ fd # OS_INVALID_FD
    BY DEF LowestFree
  <2>2. \A g \in Handles : FdOf(g) # fd
    BY <1>1, <2>1 DEF Ownership, Accounted
  <2>3. Untouched({s})
    BY <1>1, <1>2, <1>4, <2>1, <2>2 DEF Untouched, HandleTypeOK, KernelTypeOK
  <2>4. /\ sock'[s].fd = fd /\ sock'[s].is_open
        /\ sock'[s].domain = sock[s].domain /\ sock'[s].type = sock[s].type
        /\ sock'[s].is_bound = sock[s].is_bound
        /\ FdOf(s)' = fd
    BY <1>1, <1>4 DEF HandleTypeOK, SockRec, FdOf
  <2>5. kernel'[fd] = SockDescription(sock[s].domain, sock[s].type)
    BY <1>1, <1>4, <2>1 DEF KernelTypeOK
  <2>6. /\ kernel'[fd].kind = "socket" /\ kernel'[fd].port = "none"
        /\ kernel'[fd].domain = sock[s].domain /\ kernel'[fd].type = sock[s].type
    BY <2>5 DEF SockDescription
  <2>7. \A d \in Fd : IsOpen(d)' <=> IsOpen(d) \/ d = fd
    BY <1>1, <1>4, <2>1, <2>6 DEF IsOpen, KernelTypeOK
  <2>8. Ownership'
    BY <1>1, <1>2, <2>1, <2>3, <2>4, <2>7, UntouchedFds, OpeningKeepsOwnership
  <2>9. s \notin reopened' => ~sock'[s].is_bound
    BY <1>1, <1>2, <2>4 DEF SockFits
  <2>10. SockFits(s)'
    BY <2>1, <2>4, <2>6, <2>9 DEF SockFits
  <2>11. HandleKnowsItsDescriptor'
    BY <1>1, <2>3, <2>10, UntouchedFit
  <2>12. QED
    BY <2>8, <2>11 DEF DescGoal
<1>5. QED
  BY <1>3, <1>4 DEF open_sock

LEMMA CloseSockKeepsDesc ==
  ASSUME DescInv, NEW s \in Socks, close_sock(s)
  PROVE  DescGoal
<1> USE Constants
<1>1. /\ KernelTypeOK /\ HandleTypeOK /\ Ownership /\ HandleKnowsItsDescriptor
      /\ s \in Handles /\ FdOf(s) = sock[s].fd
      /\ FdOf(s) \in Fd \cup {OS_INVALID_FD}
  BY TypeInvParts, FdTypes DEF DescInv, FdOf
<1> FdOf(s) # OS_INVALID_FD => sock[s].is_open
  BY <1>1 DEF HandleKnowsItsDescriptor
<1>2. \A g \in Handles \ {s} :
        FdOf(g) \in Fd \cup {OS_INVALID_FD} /\ (FdOf(g) # OS_INVALID_FD => FdOf(g) # FdOf(s))
  BY <1>1, FdTypes DEF Ownership, NoSharedDescriptor
<1>3. /\ lost' = lost /\ file' = file /\ reopened' = reopened \ {s}
      /\ sock'[s].fd = OS_INVALID_FD
      /\ sock'[s].is_open = FALSE /\ sock'[s].is_bound = FALSE
      /\ \A r \in Socks \ {s} : sock'[r] = sock[r]
  BY <1>1 DEF close_sock, HandleTypeOK, SockRec
<1>4. kernel' = IF FdOf(s) \in Fd THEN [kernel EXCEPT ![FdOf(s)] = Free] ELSE kernel
  BY <1>1 DEF close_sock, Close
<1>5. Untouched({s})
  BY <1>1, <1>2, <1>3, <1>4 DEF Untouched, KernelTypeOK
<1>6. FdOf(s)' = OS_INVALID_FD
  BY <1>3 DEF FdOf
<1>7. \A fd \in Fd : IsOpen(fd)' <=> IsOpen(fd) /\ fd # FdOf(s)
  BY <1>1, <1>4 DEF IsOpen, KernelTypeOK, Free, FileDescription
<1>8. Ownership'
  BY <1>1, <1>3, <1>5, <1>6, <1>7, UntouchedFds, ClosingKeepsOwnership
<1>9. HandleKnowsItsDescriptor'
  BY <1>1, <1>3, <1>5, UntouchedFit DEF SockFits
<1>10. QED
  BY <1>8, <1>9 DEF DescGoal

\* bind, ReceiveInput and send change the port or the input of the socket's own
\* descriptor.
LEMMA UseSockKeepsDesc ==
  ASSUME DescInv, NEW s \in Socks, bind(s) \/ ReceiveInput(s) \/ send(s)
  PROVE  DescGoal
<1> USE Constants
<1> DEFINE fd == sock[s].fd
<1>1. /\ KernelTypeOK /\ HandleTypeOK /\ Ownership /\ HandleKnowsItsDescriptor
      /\ s \in Handles /\ FdOf(s) = fd
  BY TypeInvParts DEF DescInv, FdOf
<1>2. /\ IsOpen(fd) /\ fd \in Fd
      /\ lost' = lost /\ file' = file /\ reopened' = reopened
  BY DEF bind, CanBind, ReceiveInput, receive, send, IsOpen, handleVars
<1>3. \A g \in Handles \ {s} : FdOf(g) # OS_INVALID_FD => FdOf(g) # fd
  BY <1>1 DEF Ownership, NoSharedDescriptor
<1>4. kernel[fd] \in Description
  BY <1>1, <1>2 DEF KernelTypeOK
<1>5. PICK port \in {"none", "any", "bound"}, input \in BOOLEAN :
        /\ kernel' = [kernel EXCEPT ![fd] = [kernel[fd] EXCEPT !.port = port, !.input = input]]
        /\ \/ sock'[s].is_bound /\ port = "bound"
           \/ /\ sock'[s].is_bound = sock[s].is_bound
              /\ port = "bound" <=> kernel[fd].port = "bound"
  <2>1. kernel[fd].port \in {"none", "any", "bound"} /\ kernel[fd].input \in BOOLEAN
    BY <1>4 DEF Description
  <2>2. CASE bind(s)
    <3>1. sock'[s].is_bound = TRUE
      BY <1>1, <2>2 DEF bind, HandleTypeOK, SockRec
    <3>2. kernel' = [kernel EXCEPT ![fd] =
                       [kernel[fd] EXCEPT !.port = "bound", !.input = kernel[fd].input]]
      BY <1>1, <1>4, <2>2 DEF bind, KernelTypeOK, Description
    <3>3. QED
      BY <2>1, <3>1, <3>2
  <2>3. CASE ReceiveInput(s)
    <3>1. kernel' = [kernel EXCEPT ![fd] =
                       [kernel[fd] EXCEPT !.port = kernel[fd].port, !.input = FALSE]]
      BY <1>1, <1>4, <2>3 DEF ReceiveInput, KernelTypeOK, Description
    <3>2. sock' = sock
      BY <2>3 DEF ReceiveInput, handleVars
    <3>3. QED
      BY <2>1, <3>1, <3>2
  <2>4. CASE send(s)
    <3> DEFINE port == IF kernel[fd].port = "none" THEN "any" ELSE kernel[fd].port
    <3>1. kernel' = [kernel EXCEPT ![fd] =
                       [kernel[fd] EXCEPT !.port = port, !.input = kernel[fd].input]]
      BY <1>1, <1>4, <2>4 DEF send, KernelTypeOK, Description
    <3>2. port \in {"none", "any", "bound"} /\ (port = "bound" <=> kernel[fd].port = "bound")
      BY <2>1
    <3>3. sock' = sock
      BY <2>4 DEF send, handleVars
    <3>4. QED
      BY <2>1, <3>1, <3>2, <3>3
  <2>5. QED
    BY <2>2, <2>3, <2>4
<1>6. /\ \A r \in Socks \ {s} : sock'[r] = sock[r]
      /\ sock'[s].fd = fd /\ sock'[s].type = sock[s].type
      /\ sock'[s].domain = sock[s].domain /\ sock'[s].is_open = sock[s].is_open
  BY <1>1 DEF bind, ReceiveInput, send, handleVars, HandleTypeOK, SockRec
<1> DEFINE d == [kernel[fd] EXCEPT !.port = port, !.input = input]
<1>7. /\ d \in Description
      /\ d.kind = kernel[fd].kind /\ d.type = kernel[fd].type
      /\ d.domain = kernel[fd].domain /\ d.port = port
  BY <1>4 DEF Description
<1>8. kernel' = [kernel EXCEPT ![fd] = d] /\ kernel'[fd] = d
  BY <1>1, <1>2, <1>5 DEF KernelTypeOK
<1> HIDE DEF d
<1>9. Untouched({s})
  BY <1>1, <1>2, <1>3, <1>6, <1>8, FdTypes DEF Untouched, KernelTypeOK
<1>10. \A h \in Handles : FdOf(h)' = FdOf(h)
  BY <1>2, <1>6 DEF FdOf, Handles
<1>11. Ownership'
  BY <1>2, <1>7, <1>8, <1>10, ChangedDescription
<1>12. SockFits(s)'
  <2>1. SockFits(s)
    BY <1>1, Fits
  <2>2. fd # OS_INVALID_FD /\ sock[s].is_open
    BY <1>2, <2>1 DEF SockFits
  <2>3. QED
    BY <1>2, <1>5, <1>6, <1>7, <1>8, <2>1, <2>2 DEF SockFits
<1>13. HandleKnowsItsDescriptor'
  BY <1>1, <1>9, <1>12, UntouchedFit
<1>14. QED
  BY <1>11, <1>13 DEF DescGoal

LEMMA TraitsKeepDesc ==
  ASSUME DescInv, NEW s \in Socks, NEW type \in Type, NEW domain \in AddressDomain,
         set_traits(s, type, domain)
  PROVE  DescGoal
<1> USE Constants
<1>1. HandleTypeOK /\ Ownership /\ HandleKnowsItsDescriptor /\ s \in Handles
  BY TypeInvParts DEF DescInv
<1>2. ~sock[s].is_open /\ ~sock[s].is_bound /\ UNCHANGED <<kernel, lost, reopened, file>>
  BY DEF set_traits, set_status
<1>3. sock[s].fd = OS_INVALID_FD
  BY <1>1, <1>2 DEF HandleKnowsItsDescriptor
<1>4. /\ \A r \in Socks \ {s} : sock'[r] = sock[r]
      /\ sock'[s].fd = sock[s].fd
      /\ sock'[s].is_open = sock[s].is_open /\ sock'[s].is_bound = sock[s].is_bound
  BY <1>1 DEF set_traits, HandleTypeOK, SockRec
<1>5. Untouched({s}) /\ \A h \in Handles : FdOf(h)' = FdOf(h)
  BY <1>2, <1>4 DEF Untouched, FdOf, Handles
<1>6. Ownership'
  BY <1>1, <1>2, <1>5, NothingChangesHands DEF IsOpen
<1>7. SockFits(s)'
  BY <1>2, <1>3, <1>4 DEF SockFits
<1>8. HandleKnowsItsDescriptor'
  BY <1>1, <1>5, <1>7, UntouchedFit
<1>9. QED
  BY <1>6, <1>8 DEF DescGoal

LEMMA ArriveKeepsDesc ==
  ASSUME DescInv, Arrive
  PROVE  DescGoal
<1>1. KernelTypeOK /\ HandleTypeOK /\ HandleKnowsItsDescriptor
  BY TypeInvParts DEF DescInv
<1>2. PICK fd \in Fd : kernel' = [kernel EXCEPT ![fd].input = TRUE]
  BY DEF Arrive
<1>3. \A k \in Fd : /\ kernel'[k].kind = kernel[k].kind /\ kernel'[k].type = kernel[k].type
                    /\ kernel'[k].domain = kernel[k].domain /\ kernel'[k].port = kernel[k].port
  BY <1>1, <1>2 DEF KernelTypeOK, Description
<1>4. UNCHANGED <<lost, reopened, file, sock>>
  BY DEF Arrive, handleVars
<1>5. Ownership'
  BY <1>3, <1>4, NothingChangesHands DEF DescInv, IsOpen, FdOf
<1>6. (\A f \in Files : FileFits(f)) /\ (\A s \in Socks : SockFits(s))
  BY <1>1, Fits
<1>7. \A h \in Handles : FdOf(h) \in Fd \cup {OS_INVALID_FD}
  BY <1>1, FdTypes
<1>8. \A f \in Files : FileFits(f)'
  BY <1>3, <1>4, <1>6, <1>7, Constants DEF FileFits, FdOf
<1>9. \A s \in Socks : SockFits(s)'
  BY <1>3, <1>4, <1>6, <1>7, Constants DEF SockFits, FdOf
<1>10. QED
  BY <1>5, <1>8, <1>9, FitsAfter DEF DescGoal

LEMMA DescInvStep ==
  ASSUME DescInv, [Next]_vars
  PROVE  DescInv'
<1>1. TypeInv'
  BY TypeInvStep DEF DescInv
<1>2. CASE File
  BY <1>1, <1>2, FileKeepsDesc DEF DescGoal, DescInv
<1>3. CASE Sock
  <2>1. TypeOK
    BY DEF DescInv, TypeInv
  <2>2. PICK s \in Socks :
          \/ open_sock(s) \/ close_sock(s) \/ replace_sock(s)
          \/ bind(s) \/ ReceiveInput(s) \/ send(s)
          \/ \E type \in Type, domain \in AddressDomain : set_traits(s, type, domain)
    BY <1>3, <2>1, SockForms
  <2>3. DescGoal
    BY <2>2, OpenSockKeepsDesc, CloseSockKeepsDesc, ReplacingKeepsDesc, UseSockKeepsDesc,
       TraitsKeepDesc, Constants
  <2>4. QED
    BY <1>1, <2>3 DEF DescGoal, DescInv
<1>4. CASE Arrive
  BY <1>1, <1>4, ArriveKeepsDesc DEF DescGoal, DescInv
<1>5. CASE UNCHANGED <<kernel, handleVars>>
  BY <1>1, <1>5 DEF DescInv, Ownership, NoSharedDescriptor, Accounted, IsOpen, FdOf,
     HandleKnowsItsDescriptor, handleVars
<1>6. QED
  BY <1>2, <1>3, <1>4, <1>5 DEF Next, Select, add_fd, read_wait, clear_set, vars

LEMMA DescInvInit == Init => DescInv
<1> SUFFICES ASSUME Init PROVE DescInv
  OBVIOUS
<1>1. \A f \in Files : file[f].fd = OS_INVALID_FD /\ file[f].mode = "OPEN_NO_MODE"
  BY DEF Init, NewFile
<1>2. \A s \in Socks : /\ sock[s].fd = OS_INVALID_FD
                       /\ sock[s].is_open = FALSE /\ sock[s].is_bound = FALSE
  <2>1. \A new \in NewSock : /\ new.fd = OS_INVALID_FD
                             /\ new.is_open = FALSE /\ new.is_bound = FALSE
    BY DEF NewSock
  <2>2. QED
    BY <2>1 DEF Init
<1>3. \A h \in Handles : FdOf(h) = OS_INVALID_FD
  BY <1>1, <1>2 DEF FdOf, Handles
<1>4. \A fd \in Fd : ~IsOpen(fd) /\ fd \notin lost
  BY DEF Init, IsOpen, Free, FileDescription
<1>5. Ownership
  <2>1. OS_INVALID_FD \notin lost
    BY DEF Init
  <2>2. QED
    BY <1>3, <1>4, <2>1, Constants DEF Ownership, NoSharedDescriptor, Accounted
<1>6. HandleKnowsItsDescriptor
  BY <1>1, <1>2 DEF HandleKnowsItsDescriptor
<1>7. QED
  BY <1>5, <1>6, TypeInvInit DEF DescInv

\* The inductive invariant: who has which descriptor, and that what a handle
\* says of itself fits what the kernel has under its number.
THEOREM DescInvHolds == Spec => []DescInv
BY DescInvInit, DescInvStep, PTL DEF Spec

\* Two handles never stand for the same file or socket, for any number of
\* handles and whatever the kernel gives out again (File.cpp:107,
\* Socket.cpp:89).
THEOREM DescriptorsAreNotShared == Spec => []NoSharedDescriptor
<1>1. DescInv => NoSharedDescriptor
  BY DEF DescInv, Ownership
<1>2. QED
  BY <1>1, DescInvHolds, PTL

\* The mode, the type and the domain of a handle are those of its descriptor, and
\* is_open, is_bound and the mode of a handle without one never deny what it has.
\* They are exact for a handle that was not opened again while open; after that
\* they may claim what is no longer so (File.cpp:94-115, Socket.cpp:73-99).
THEOREM HandlesKnow == Spec => []HandleKnowsItsDescriptor
<1>1. DescInv => HandleKnowsItsDescriptor
  BY DEF DescInv
<1>2. QED
  BY <1>1, DescInvHolds, PTL

\* Every descriptor that is open is held by a handle or was lost when its handle
\* was opened again or ended, and not both (File.cpp:94, File.hpp:89,
\* Socket.cpp:76).
THEOREM NoOtherLeak == Spec => []DescriptorsAreHeldOrLost
<1>1. DescInv => DescriptorsAreHeldOrLost
  <2>1. DescInv => /\ Accounted /\ lost \in SUBSET Fd
                   /\ \A h \in Handles : FdOf(h) \in Fd \cup {OS_INVALID_FD}
    BY TypeInvParts, FdTypes DEF DescInv, Ownership, HandleTypeOK
  <2>2. QED
    BY <2>1, Constants DEF DescriptorsAreHeldOrLost, Accounted, Held
<1>2. QED
  BY <1>1, DescInvHolds, PTL

LEMMA FileAnswers ==
  ASSUME DescInv, NEW f \in Files
  PROVE  LET Open(access) == IsOpen(file[f].fd) /\ kernel[file[f].fd].kind = access IN
           /\ "NOT_OPENED" \in read(f)  <=> ~Open("read")
           /\ "NOT_OPENED" \in write(f) \/ "NOT_OPENED" \in size(f) => ~IsOpen(file[f].fd)
           /\ "INVALID_MODE" \in write(f) => ~Open("write")
           /\ f \notin reopened =>
                /\ "NOT_OPENED" \in write(f)   <=> ~IsOpen(file[f].fd)
                /\ "NOT_OPENED" \in size(f)    <=> ~IsOpen(file[f].fd)
                /\ "INVALID_MODE" \in write(f) <=> Open("read")
<1> DEFINE fd == file[f].fd
           mode == file[f].mode
<1>1. FileFits(f) /\ HandleTypeOK /\ f \in Handles /\ FdOf(f) = fd
  BY Fits, TypeInvParts, Constants DEF DescInv, FdOf
<1>2. IsOpen(fd) <=> fd # OS_INVALID_FD
  BY <1>1, FdTypes, Constants DEF DescInv, Ownership, Accounted, IsOpen
<1>3. /\ "NOT_OPENED" \in read(f) <=>
           mode # "OPEN_READ" \/ ~(IsOpen(fd) /\ kernel[fd].kind = "read")
      /\ "NOT_OPENED" \in write(f) <=>
           \/ mode = "OPEN_NO_MODE"
           \/ mode # "OPEN_READ" /\ ~(IsOpen(fd) /\ kernel[fd].kind = "write")
      /\ "INVALID_MODE" \in write(f) <=> mode = "OPEN_READ"
      /\ "NOT_OPENED" \in size(f) <=> mode = "OPEN_NO_MODE"
  BY DEF read, write, size, Transfer
<1>4. CASE IsOpen(fd)
  BY <1>1, <1>2, <1>3, <1>4 DEF FileFits
<1>5. CASE ~IsOpen(fd)
  BY <1>1, <1>2, <1>3, <1>5 DEF FileFits
<1>6. QED
  BY <1>4, <1>5

LEMMA SockAnswers ==
  ASSUME DescInv, NEW s \in Socks
  PROVE  LET Bound == IsOpen(sock[s].fd) /\ kernel[sock[s].fd].port = "bound" IN
           /\ "NOT_OPENED" \in receive(s) => ~IsOpen(sock[s].fd)
           /\ "NOT_BOUND" \in receive(s)  => ~Bound
           /\ IsOpen(sock[s].fd) => set_status(s) = "IS_OPEN"
           /\ s \notin reopened =>
                /\ "NOT_OPENED" \in receive(s) <=> ~IsOpen(sock[s].fd)
                /\ "NOT_BOUND" \in receive(s)  <=> IsOpen(sock[s].fd) /\ ~Bound
                /\ set_status(s) = "IS_OPEN"   <=> IsOpen(sock[s].fd)
<1> DEFINE fd == sock[s].fd
<1>1. SockFits(s) /\ HandleTypeOK /\ s \in Handles /\ FdOf(s) = fd
  BY Fits, TypeInvParts, Constants DEF DescInv, FdOf
<1>2. IsOpen(fd) <=> fd # OS_INVALID_FD
  BY <1>1, FdTypes, Constants DEF DescInv, Ownership, Accounted, IsOpen
<1>3. /\ "NOT_OPENED" \in receive(s) <=> ~sock[s].is_open
      /\ "NOT_BOUND" \in receive(s) <=> sock[s].is_open /\ ~sock[s].is_bound
      /\ set_status(s) = "IS_OPEN" <=> sock[s].is_open \/ sock[s].is_bound
  BY DEF receive, set_status
<1>4. QED
  BY <1>1, <1>2, <1>3 DEF SockFits

\* What read, write, size, receive and the two setters refuse is true of what the
\* kernel has, exactly so for a handle that was not opened again while open; one
\* that was may accept too much, or name the wrong reason (File.cpp:123,
\* Socket.cpp:127, Socket.hpp:114-134).
THEOREM RefusalsFollowTheKernel == Spec => []RefusalsAreTrue
<1>1. DescInv => RefusalsAreTrue
  BY FileAnswers, SockAnswers DEF RefusalsAreTrue
<1>2. QED
  BY <1>1, DescInvHolds, PTL

=============================================================================
