----------------------------- MODULE OsHandles -----------------------------
(***************************************************************************)
(* The handles of the POSIX layer: Os::File and Os::Sock objects, each     *)
(* with a descriptor of its own, and an Os::Select that waits on           *)
(* descriptors by number. What they share is the process's table of        *)
(* descriptors, where a number that was closed is given out again.         *)
(*                                                                         *)
(* A handle belongs to one thread and is not copied, and every method      *)
(* makes one system call, so a method is one step. A method that changes   *)
(* nothing is the set of statuses it may return. Contents and sizes are    *)
(* left out. An object that ends makes room for a new one of its name.     *)
(***************************************************************************)
EXTENDS Integers

CONSTANTS
  Files, Socks,         \* the Os::File and the Os::Sock objects
  NumFds,               \* the limit of the process's table, below FD_SETSIZE
  MAX_SELECTABLE_OBJS   \* entries of a Select

ASSUME OsHandlesAssumption ==
  /\ Files \cap Socks = {}
  /\ NumFds \in Nat \ {0}
  /\ MAX_SELECTABLE_OBJS \in Nat \ {0}

VARIABLES
  kernel,    \* the table of descriptors
  lost,      \* history: descriptors whose handle was opened again, or ended
  reopened,  \* history: handles opened again while open, and not closed since
  file,      \* the File objects: _fd and _mode
  sock,      \* the Sock objects
  RdSet,     \* Select::RdSet; entries never written are Unset
  RdSetIdx,  \* Select::RdSetIdx
  MaxFd      \* Select::MaxFd

handleVars == <<lost, reopened, file, sock>>

vars == <<kernel, handleVars, RdSet, RdSetIdx, MaxFd>>

OS_INVALID_FD == -1
Unset == -2   \* an entry whose value is whatever the memory held

Fd == 0..(NumFds - 1)
Slots == 0..(MAX_SELECTABLE_OBJS - 1)

Mode == {"OPEN_NO_MODE", "OPEN_READ", "OPEN_CREATE", "OPEN_WRITE",
         "OPEN_SYNC_WRITE", "OPEN_APPEND"}
Type == {"STREAM", "DGRAM"}
AddressDomain == {"IPv4", "IPv6"}

\* What a descriptor stands for: a file open for reading or for writing, or a
\* socket, whose port is none, chosen by the kernel or the one it was bound to,
\* with or without input to receive.
Description ==
  [kind : {"free", "read", "write", "socket"}, domain : AddressDomain, type : Type,
   port : {"none", "any", "bound"}, input : BOOLEAN]

FileDescription(access) ==
  [kind |-> access, domain |-> "IPv4", type |-> "STREAM", port |-> "none", input |-> FALSE]

SockDescription(domain, type) ==
  [kind |-> "socket", domain |-> domain, type |-> type, port |-> "none", input |-> FALSE]

Free == FileDescription("free")

IsOpen(fd) == fd \in Fd /\ kernel[fd].kind # "free"

\* open and socket give out the lowest number that is free.
LowestFree == {fd \in Fd : ~IsOpen(fd) /\ \A k \in 0..(fd - 1) : IsOpen(k)}

Close(fd) == kernel' = IF fd \in Fd THEN [kernel EXCEPT ![fd] = Free] ELSE kernel

Handles == Files \cup Socks

FdOf(h) == IF h \in Files THEN file[h].fd ELSE sock[h].fd

\* The objects as they are constructed.
NewFile == [fd |-> OS_INVALID_FD, mode |-> "OPEN_NO_MODE"]

NewSock == [fd : {OS_INVALID_FD}, type : Type, domain : AddressDomain,
            is_open : {FALSE}, is_bound : {FALSE}]

TypeOK ==
  /\ kernel \in [Fd -> Description]
  /\ lost \in SUBSET Fd
  /\ reopened \in SUBSET Handles
  /\ file \in [Files -> [fd : Fd \cup {OS_INVALID_FD}, mode : Mode]]
  /\ sock \in [Socks -> [fd : Fd \cup {OS_INVALID_FD}, type : Type, domain : AddressDomain,
                         is_open : BOOLEAN, is_bound : BOOLEAN]]
  /\ RdSet \in [Slots -> Fd \cup {OS_INVALID_FD, Unset}]
  /\ RdSetIdx \in 0..MAX_SELECTABLE_OBJS
  /\ MaxFd \in Fd \cup {OS_INVALID_FD}

Init ==
  /\ kernel = [fd \in Fd |-> Free]
  /\ lost = {}
  /\ reopened = {}
  /\ file = [f \in Files |-> NewFile]
  /\ sock \in [Socks -> NewSock]
  /\ RdSet = [n \in Slots |-> Unset]
  /\ RdSetIdx = 0
  /\ MaxFd = OS_INVALID_FD

selectVars == <<RdSet, RdSetIdx, MaxFd>>

-----------------------------------------------------------------------------
(* Os::File.                                                               *)

\* The handle's descriptor, if it has one, stays open for ever.
Lose(h) == lost' = lost \cup ({FdOf(h)} \ {OS_INVALID_FD})

Reopen(h) ==
  /\ Lose(h)
  /\ reopened' = IF FdOf(h) = OS_INVALID_FD THEN reopened ELSE reopened \cup {h}

\* The object ends as it is, for no destructor closes anything.
End(h) ==
  /\ Lose(h)
  /\ reopened' = reopened \ {h}

\* Files come and go in the file system, and the kernel may refuse for many
\* reasons: of a mode's flags only the direction of access stays behind.
open_file(f, mode) ==
  /\ Reopen(f)
  /\ \/ /\ file' = [file EXCEPT ![f].fd = OS_INVALID_FD]
        /\ UNCHANGED kernel
     \/ \E fd \in LowestFree :
          /\ kernel' = [kernel EXCEPT ![fd] =
               FileDescription(IF mode = "OPEN_READ" THEN "read" ELSE "write")]
          /\ file' = [file EXCEPT ![f] = [fd |-> fd, mode |-> mode]]
  /\ UNCHANGED <<sock, selectVars>>

\* As close_file, with the descriptor left in the handle.
close_file_keeps_fd(f) ==
  /\ Close(file[f].fd)
  /\ file' = [file EXCEPT ![f].mode = "OPEN_NO_MODE"]
  /\ reopened' = reopened \ {f}
  /\ UNCHANGED <<lost, sock, selectVars>>

\* A handle without a descriptor keeps the mode of an earlier open.
close_file(f) ==
  /\ file[f].fd # OS_INVALID_FD
  /\ Close(file[f].fd)
  /\ file' = [file EXCEPT ![f] = NewFile]
  /\ reopened' = reopened \ {f}
  /\ UNCHANGED <<lost, sock, selectVars>>

replace_file(f) ==
  /\ End(f)
  /\ file' = [file EXCEPT ![f] = NewFile]
  /\ UNCHANGED <<kernel, sock, selectVars>>

File ==
  \E f \in Files :
    \/ \E mode \in Mode \ {"OPEN_NO_MODE"} : open_file(f, mode)
    \/ close_file(f)
    \/ replace_file(f)

\* ::read and ::write of a descriptor that is open this way succeed, or fail for a
\* reason for which there is another status (Failed); of any other one it is the
\* status of EBADF.
Transfer(f, access) ==
  IF IsOpen(file[f].fd) /\ kernel[file[f].fd].kind = access
  THEN {"OK", "Failed"}
  ELSE {"NOT_OPENED"}

read(f) == IF file[f].mode # "OPEN_READ" THEN {"NOT_OPENED"} ELSE Transfer(f, "read")

write(f) ==
  CASE file[f].mode = "OPEN_NO_MODE" -> {"NOT_OPENED"}
    [] file[f].mode = "OPEN_READ"    -> {"INVALID_MODE"}
    [] OTHER -> Transfer(f, "write")

\* readline, position and calc_crc answer NOT_SUPPORTED in any mode.
size(f) == IF file[f].mode = "OPEN_NO_MODE" THEN {"NOT_OPENED"} ELSE {"NOT_SUPPORTED"}

-----------------------------------------------------------------------------
(* Os::Sock.                                                               *)

\* A failure leaves is_open and is_bound as they were, and so does a success
\* is_bound.
open_sock(s) ==
  /\ Reopen(s)
  /\ \/ /\ sock' = [sock EXCEPT ![s].fd = OS_INVALID_FD]
        /\ UNCHANGED kernel
     \/ \E fd \in LowestFree :
          /\ kernel' = [kernel EXCEPT ![fd] = SockDescription(sock[s].domain, sock[s].type)]
          /\ sock' = [sock EXCEPT ![s].fd = fd, ![s].is_open = TRUE]
  /\ UNCHANGED <<file, selectVars>>

\* As close_sock, asking for is_bound.
close_sock_if_bound(s) ==
  /\ IF sock[s].is_bound THEN Close(sock[s].fd) ELSE UNCHANGED kernel
  /\ sock' = [sock EXCEPT ![s].fd = OS_INVALID_FD,
                          ![s].is_open = FALSE, ![s].is_bound = FALSE]
  /\ reopened' = reopened \ {s}
  /\ UNCHANGED <<lost, file, selectVars>>

close_sock(s) ==
  /\ IF sock[s].is_open THEN Close(sock[s].fd) ELSE UNCHANGED kernel
  /\ sock' = [sock EXCEPT ![s].fd = IF sock[s].is_open THEN OS_INVALID_FD ELSE @,
                          ![s].is_open = FALSE, ![s].is_bound = FALSE]
  /\ reopened' = reopened \ {s}
  /\ UNCHANGED <<lost, file, selectVars>>

replace_sock(s) ==
  /\ End(s)
  /\ \E new \in NewSock : sock' = [sock EXCEPT ![s] = new]
  /\ UNCHANGED <<kernel, file, selectVars>>

\* Address and port are always handed over as a sockaddr_in, which the kernel
\* takes for an IPv4 socket that has no port yet.
CanBind(fd) ==
  IsOpen(fd) /\ kernel[fd].domain = "IPv4" /\ kernel[fd].port = "none"

\* As bind, which forgets to note it.
bind_unnoted(s) ==
  /\ sock[s].is_open /\ CanBind(sock[s].fd)
  /\ kernel' = [kernel EXCEPT ![sock[s].fd].port = "bound"]
  /\ UNCHANGED <<handleVars, selectVars>>

\* NOT_OPENED and BIND_FAILURE change nothing.
bind(s) ==
  /\ sock[s].is_open /\ CanBind(sock[s].fd)
  /\ kernel' = [kernel EXCEPT ![sock[s].fd].port = "bound"]
  /\ sock' = [sock EXCEPT ![s].is_bound = TRUE]
  /\ UNCHANGED <<lost, reopened, file, selectVars>>

\* Nothing listens or connects: a stream socket has nothing to receive from, and
\* the call for a datagram socket without input does not return, unless a signal
\* or an error of the socket ends it.
receive(s) ==
  CASE ~sock[s].is_open -> {"NOT_OPENED"}
    [] sock[s].is_open /\ ~sock[s].is_bound -> {"NOT_BOUND"}
    [] OTHER -> {"RECV_ERR"}
                \cup (IF IsOpen(sock[s].fd) /\ kernel[sock[s].fd].input THEN {"OP_OK"} ELSE {})

ReceiveInput(s) ==
  /\ "OP_OK" \in receive(s)
  /\ kernel' = [kernel EXCEPT ![sock[s].fd].input = FALSE]
  /\ UNCHANGED <<handleVars, selectVars>>

\* Sending gives a datagram socket without a port one that the kernel chooses.
\* NOT_OPENED and INVALID_ARG change nothing.
send(s) ==
  LET fd == sock[s].fd IN
  /\ sock[s].is_open /\ IsOpen(fd) /\ kernel[fd].type = "DGRAM"
  /\ kernel' = [kernel EXCEPT ![fd].port = IF @ = "none" THEN "any" ELSE @]
  /\ UNCHANGED <<handleVars, selectVars>>

\* What set_type and set_domain answer.
set_status(s) == IF sock[s].is_open \/ sock[s].is_bound THEN "IS_OPEN" ELSE "OP_OK"

\* As set_traits, for a socket that is open and not bound too.
set_traits_unless_bound(s, type, domain) ==
  /\ ~sock[s].is_bound
  /\ sock' = [sock EXCEPT ![s].type = type, ![s].domain = domain]
  /\ UNCHANGED <<kernel, lost, reopened, file, selectVars>>

\* set_type, with the domain as it is, and set_domain, with the type as it is.
\* IS_OPEN changes nothing.
set_traits(s, type, domain) ==
  /\ set_status(s) = "OP_OK"
  /\ sock' = [sock EXCEPT ![s].type = type, ![s].domain = domain]
  /\ UNCHANGED <<kernel, lost, reopened, file, selectVars>>

Sock ==
  \E s \in Socks :
    \/ open_sock(s) \/ close_sock(s) \/ replace_sock(s)
    \/ bind(s) \/ ReceiveInput(s) \/ send(s)
    \/ \E type \in Type : set_traits(s, type, sock[s].domain)
    \/ \E domain \in AddressDomain : set_traits(s, sock[s].type, domain)

\* A datagram comes for a socket that has a port.
Arrive ==
  /\ \E fd \in Fd :
       /\ kernel[fd].port # "none" /\ kernel[fd].type = "DGRAM" /\ ~kernel[fd].input
       /\ kernel' = [kernel EXCEPT ![fd].input = TRUE]
  /\ UNCHANGED <<handleVars, selectVars>>

-----------------------------------------------------------------------------
(* Os::Select, given descriptors of sockets: a File does not show its own. *)

\* As add_fd, with room for one more.
add_fd_past_end(fd) ==
  /\ RdSetIdx <= MAX_SELECTABLE_OBJS
  /\ RdSet' = [RdSet EXCEPT ![RdSetIdx] = fd]
  /\ RdSetIdx' = RdSetIdx + 1
  /\ UNCHANGED <<kernel, handleVars, MaxFd>>

\* SET_FULL changes nothing.
add_fd(fd) ==
  /\ RdSetIdx < MAX_SELECTABLE_OBJS
  /\ RdSet' = [RdSet EXCEPT ![RdSetIdx] = fd]
  /\ RdSetIdx' = RdSetIdx + 1
  /\ UNCHANGED <<kernel, handleVars, MaxFd>>

\* The descriptors that add_set puts into the kernel's set.
Watched == {RdSet[n] : n \in 0..(RdSetIdx - 1)} \ {OS_INVALID_FD}

\* _update_max_fd, for each of them: from call to call MaxFd only grows.
NewMaxFd == CHOOSE max \in Watched \cup {MaxFd} : \A fd \in Watched \cup {MaxFd} : fd <= max

\* Files, and stream sockets, which are not connected, are ready at any time.
HasInput(fd) == kernel[fd].kind # "socket" \/ kernel[fd].type = "STREAM" \/ kernel[fd].input

\* As Looked, without the 1 that is added to MaxFd.
LookedBelowMax(max) == {fd \in Watched : fd < max}

\* select looks at the descriptors below its first argument, MaxFd + 1.
Looked(max) == {fd \in Watched : fd < max + 1}

\* The loop asks FD_ISSET for every entry, the ones behind RdSetIdx and the
\* invalid ones included: out of the set's range it may say yes.
Junk == IF \E n \in Slots : RdSet[n] \in {Unset, OS_INVALID_FD}
        THEN {{}, {OS_INVALID_FD}} ELSE {{}}

\* The status and the descriptors that read_wait may return. It waits until there
\* is input or until its time is over, unless select fails: for a descriptor that
\* was closed, because of a signal, for want of memory.
WaitResults ==
  LET looked == Looked(NewMaxFd)
      ready  == {fd \in looked : HasInput(fd)}
      failed == {[status |-> "INVALID_FD", fds |-> {}]}
  IN  IF \E fd \in looked : ~IsOpen(fd) THEN failed
      ELSE failed \cup (IF ready = {} THEN {[status |-> "TIMEOUT", fds |-> {}]}
                        ELSE {[status |-> "OK", fds |-> ready \cup junk] : junk \in Junk})

\* What read_wait leaves behind.
read_wait ==
  /\ MaxFd' = NewMaxFd
  /\ UNCHANGED <<kernel, handleVars, RdSet, RdSetIdx>>

clear_set ==
  /\ RdSet' = [n \in Slots |-> OS_INVALID_FD]
  /\ RdSetIdx' = 0
  /\ MaxFd' = OS_INVALID_FD
  /\ UNCHANGED <<kernel, handleVars>>

Select == (\E s \in Socks : add_fd(sock[s].fd)) \/ read_wait \/ clear_set

Next == File \/ Sock \/ Arrive \/ Select

Spec == Init /\ [][Next]_vars

-----------------------------------------------------------------------------
(* Properties.                                                             *)

Held == {FdOf(h) : h \in Handles} \ {OS_INVALID_FD}

\* Two handles never stand for the same open file or socket, in whatever order
\* they are opened, opened again and closed, although the kernel gives a closed
\* number out again (File.cpp:107, Socket.cpp:89).
NoSharedDescriptor ==
  \A g, h \in Handles : FdOf(g) = FdOf(h) /\ FdOf(h) # OS_INVALID_FD => g = h

\* What a handle says of its descriptor. Its mode, its type and its domain are
\* those of the descriptor it has. Of the flags, is_open and is_bound may be left
\* from a descriptor that was lost, and so may the mode of a handle without one:
\* that a handle has a descriptor, or was given a port, it never denies; and it
\* claims neither falsely unless it was opened again while open, and not closed
\* since (File.cpp:94-115, Socket.cpp:73-99).
HandleKnowsItsDescriptor ==
  /\ \A f \in Files :
       /\ file[f].fd # OS_INVALID_FD =>
            /\ kernel[file[f].fd].kind = IF file[f].mode = "OPEN_READ" THEN "read" ELSE "write"
            /\ file[f].mode # "OPEN_NO_MODE"
       /\ f \notin reopened /\ file[f].fd = OS_INVALID_FD => file[f].mode = "OPEN_NO_MODE"
  /\ \A s \in Socks :
       /\ sock[s].fd # OS_INVALID_FD =>
            /\ kernel[sock[s].fd].kind = "socket"
            /\ kernel[sock[s].fd].type = sock[s].type
            /\ kernel[sock[s].fd].domain = sock[s].domain
            /\ sock[s].is_open
            /\ kernel[sock[s].fd].port = "bound" => sock[s].is_bound
       /\ s \notin reopened =>
            /\ sock[s].is_open => sock[s].fd # OS_INVALID_FD
            /\ sock[s].is_bound => sock[s].is_open /\ kernel[sock[s].fd].port = "bound"

\* close() gives every descriptor back. Those that are open are the ones that
\* handles have and the ones that were lost, because a handle that had one was
\* opened again (File.cpp:94, Socket.cpp:76) or ended (File.hpp:89): no failing
\* call loses any other, and nobody closes a lost one, or the next owner of its
\* number, in passing.
DescriptorsAreHeldOrLost ==
  /\ {fd \in Fd : IsOpen(fd)} = Held \cup lost
  /\ Held \cap lost = {}

\* What methods answer from the fields of the handle. A handle that was not
\* opened again while open is right in what it refuses and accepts, if NOT_OPENED
\* of read is read as not open for reading: "file hasn't been opened yet"
\* (File.hpp:42) is not true of a file that is open for writing, for which there
\* is INVALID_MODE (File.hpp:45). One that was opened again while open may
\* accept what the kernel then refuses, or receive from a socket without a port,
\* and may say IS_OPEN of a socket that is not, or INVALID_MODE instead of
\* NOT_OPENED; its NOT_OPENED and NOT_BOUND are true all the same, and what it has
\* open keeps type and domain (File.cpp:117-214, Socket.cpp:125-135,
\* Socket.hpp:114-134).
RefusalsAreTrue ==
  /\ \A f \in Files :
       LET Open(access) == IsOpen(file[f].fd) /\ kernel[file[f].fd].kind = access IN
       /\ "NOT_OPENED" \in read(f)  <=> ~Open("read")
       /\ "NOT_OPENED" \in write(f) \/ "NOT_OPENED" \in size(f) => ~IsOpen(file[f].fd)
       /\ "INVALID_MODE" \in write(f) => ~Open("write")
       /\ f \notin reopened =>
            /\ "NOT_OPENED" \in write(f)   <=> ~IsOpen(file[f].fd)
            /\ "NOT_OPENED" \in size(f)    <=> ~IsOpen(file[f].fd)
            /\ "INVALID_MODE" \in write(f) <=> Open("read")
  /\ \A s \in Socks :
       LET Bound == IsOpen(sock[s].fd) /\ kernel[sock[s].fd].port = "bound" IN
       /\ "NOT_OPENED" \in receive(s) => ~IsOpen(sock[s].fd)
       /\ "NOT_BOUND" \in receive(s)  => ~Bound
       /\ IsOpen(sock[s].fd) => set_status(s) = "IS_OPEN"
       /\ s \notin reopened =>
            /\ "NOT_OPENED" \in receive(s) <=> ~IsOpen(sock[s].fd)
            /\ "NOT_BOUND" \in receive(s)  <=> IsOpen(sock[s].fd) /\ ~Bound
            /\ set_status(s) = "IS_OPEN"   <=> IsOpen(sock[s].fd)

\* read_wait reports every watched descriptor that has input, the highest
\* included, times out only if none has, and does neither when one was closed:
\* whatever MaxFd, the entries and the handles went through before
\* (Select.cpp:57). From INVALID_FD nothing follows, against
\* "One or more file descriptors is invalid" (Select.hpp:33).
WaitTellsTheTruth ==
  \A res \in WaitResults :
    /\ (\E fd \in Watched : ~IsOpen(fd)) => res.status = "INVALID_FD"
    /\ res.status # "INVALID_FD" =>
         res.fds \ {OS_INVALID_FD} = {fd \in Watched : HasInput(fd)}
    /\ res.status = "OK" <=> res.fds \ {OS_INVALID_FD} # {}

=============================================================================
