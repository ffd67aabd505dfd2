----------------------------- MODULE NetxSocket -----------------------------
(***************************************************************************)
(* The sockets of netx (netx.c:522-1376): what each function holds at each *)
(* of its system calls, any of which can fail.  One thread makes a call at *)
(* a time.  Addresses are known ("v4", "v6") or not ("none"); ports, flags *)
(* and the text of addresses are left out.                                 *)
(*                                                                         *)
(* A definition whose comment calls it a fault stands before the one it    *)
(* is a faulty variant of; nothing uses it but the mutants of the runs.    *)
(***************************************************************************)
EXTENDS Integers, Sequences, FiniteSets

CONSTANTS Fds,          \* descriptors the system has left
          MaxIfLists    \* bound: lists of getifaddrs

NetxSocketAssumption == Fds \subseteq Nat /\ MaxIfLists \in Nat

VARIABLES open,         \* open descriptors
          owned,        \* those that a caller of netx has been given
          results,      \* getaddrinfo's lists that are not freed
          if_lists,     \* getifaddrs' lists: netx frees none
          call,         \* the call in progress
          ret           \* the last call's result and the address it found

vars == <<open, owned, results, if_lists, call, ret>>

NoFd == -1
NoCall == [op |-> "none", todo |-> <<>>, fd |-> NoFd, family |-> "none"]

Init ==
    /\ open = {} /\ owned = {} /\ results = 0 /\ if_lists = 0
    /\ call = NoCall
    /\ ret = [value |-> 0, addr |-> "none"]

Optional(b, step) == IF b THEN <<step>> ELSE <<>>

---------------------------------------------------------------------------
(* The system calls of each function, in order.                            *)

OpenSteps(stream, bound, reuse) ==
    <<"socket">> \o Optional(reuse, "setsockopt") \o <<"fcntl">>
      \o Optional(bound, "bind") \o Optional(stream, "listen")

ConnectSteps(local) ==
    <<"socket", "fcntl">> \o (IF local THEN <<"setsockopt", "bind">> ELSE <<>>)
      \o <<"connect">>

AcceptSteps == <<"accept", "fcntl">>

LocalIpSteps == <<"socket", "fcntl", "connect">>

(* netx_open_2 tells from the look-up of an address which family to use. *)
Open2Steps(stream, bound, reuse) == <<"getaddrinfo">> \o OpenSteps(stream, bound, reuse)

Begin(op, steps) ==
    /\ call = NoCall
    /\ call' = [NoCall EXCEPT !.op = op, !.todo = steps]
    /\ UNCHANGED <<open, owned, results, if_lists, ret>>

NetxOpen ==
    \E stream, bound, reuse \in BOOLEAN :
        Begin("netx_open", OpenSteps(stream, bound, reuse))
NetxConnect == \E local \in BOOLEAN : Begin("netx_connect", ConnectSteps(local))
NetxAccept == owned # {} /\ Begin("netx_accept", AcceptSteps)
NetxGetLocalIp == Begin("netx_get_local_ip", LocalIpSteps)
NetxOpen2 ==
    \E stream, bound, reuse \in BOOLEAN :
        Begin("netx_open_2", Open2Steps(stream, bound, reuse))

(* Arguments that are refused, and a host that is not an address. *)
Refused ==
    /\ call = NoCall
    /\ ret' = [value |-> -1, addr |-> "none"]
    /\ UNCHANGED <<open, owned, results, if_lists, call>>

---------------------------------------------------------------------------
Step == Head(call.todo)

Return(value, addr) ==
    /\ call' = NoCall
    /\ ret' = [value |-> value, addr |-> addr]

(* The call's descriptor is its result. *)
ReturnFd ==
    /\ call.todo = <<>> /\ call.op \in {"netx_open", "netx_open_2", "netx_connect", "netx_accept"}
    /\ owned' = owned \cup {call.fd}
    /\ Return(call.fd, "none")
    /\ UNCHANGED <<open, results, if_lists>>

(* socket or accept: the only ones that open. *)
Opens(fd) ==
    /\ call.todo # <<>> /\ Step \in {"socket", "accept"}
    /\ fd \notin open
    /\ open' = open \cup {fd}
    /\ call' = [call EXCEPT !.todo = Tail(@), !.fd = fd]
    /\ UNCHANGED <<owned, results, if_lists, ret>>

(* Binding an address of IPv4, the only one given, to a socket of IPv6     *)
(* does not succeed.                                                       *)
Succeeds ==
    /\ call.todo # <<>> /\ Step \in {"setsockopt", "fcntl", "bind", "listen", "connect"}
    /\ ~ (Step = "bind" /\ call.family = "v6")
    /\ call' = [call EXCEPT !.todo = Tail(@)]
    /\ UNCHANGED <<open, owned, results, if_lists, ret>>

(* Fault: the descriptor stays open when the last step, listen, fails. *)
FailsListenOpen ==
    /\ call.todo # <<>> /\ Step # "getaddrinfo" /\ call.op # "netx_get_local_ip"
    /\ open' = IF Step = "listen" THEN open ELSE open \ {call.fd}
    /\ Return(-1, "none")
    /\ UNCHANGED <<owned, results, if_lists>>

(* A step fails: what was opened is closed. *)
Fails ==
    /\ call.todo # <<>> /\ Step # "getaddrinfo" /\ call.op # "netx_get_local_ip"
    /\ open' = open \ {call.fd}
    /\ Return(-1, "none")
    /\ UNCHANGED <<owned, results, if_lists>>

---------------------------------------------------------------------------
(* netx_get_local_ip: by the address of a connected socket, or by the name *)
(* of the host, or by the first of two interfaces that has one.            *)

AsksFor == {"v4", "none"}

(* Fault: the first socket is closed only when it was connected. *)
LocalIpBySocketLeaks ==
    /\ call.op = "netx_get_local_ip"
    /\ \/ call.todo = <<>> /\ open' = open \ {call.fd}
       \/ call.todo # <<>> /\ open' = open
    /\ \E a \in IF call.todo = <<>> THEN AsksFor ELSE {"none"} :
         IF a # "none" THEN Return(0, a)
         ELSE call' = [NoCall EXCEPT !.op = "by_name"] /\ UNCHANGED ret
    /\ UNCHANGED <<owned, results, if_lists>>

(* The socket is connected, or a step of it fails, netx_open closing it    *)
(* before it returns; it is closed in any case.                            *)
LocalIpBySocket ==
    /\ call.op = "netx_get_local_ip"
    /\ open' = open \ {call.fd}
    /\ \E a \in IF call.todo = <<>> THEN AsksFor ELSE {"none"} :
         IF a # "none" THEN Return(0, a)
         ELSE call' = [NoCall EXCEPT !.op = "by_name"] /\ UNCHANGED ret
    /\ UNCHANGED <<owned, results, if_lists>>

LocalIpByName ==
    /\ call.op = "by_name"
    /\ \/ Return(0, "v4")
       \/ call' = [call EXCEPT !.op = "by_interface"] /\ UNCHANGED ret
    /\ UNCHANGED <<open, owned, results, if_lists>>

LocalIpSocket ==
    /\ call.op = "by_interface" /\ call.fd = NoFd
    /\ \/ \E fd \in Fds \ open :
            open' = open \cup {fd} /\ call' = [call EXCEPT !.fd = fd] /\ UNCHANGED ret
       \/ Return(-2, "none") /\ UNCHANGED open
    /\ UNCHANGED <<owned, results, if_lists>>

(* Fault: an interface without an address is a success. *)
LocalIpByInterfaceAnyway ==
    /\ call.op = "by_interface" /\ call.fd # NoFd
    /\ open' = open \ {call.fd}
    /\ \E a \in AsksFor : Return(0, a)
    /\ UNCHANGED <<owned, results, if_lists>>

LocalIpByInterface ==
    /\ call.op = "by_interface" /\ call.fd # NoFd
    /\ open' = open \ {call.fd}
    /\ \E a \in AsksFor : Return(IF a = "none" THEN -2 ELSE 0, a)
    /\ UNCHANGED <<owned, results, if_lists>>

---------------------------------------------------------------------------
(* netx_get_sockaddr_by_string: getaddrinfo, then a walk through its list, *)
(* in which the last address of IPv6 wins over any of IPv4.  A list that   *)
(* holds neither gives no address and the result 0 all the same.           *)
Family(found) == IF "v6" \in found THEN "v6" ELSE IF "v4" \in found THEN "v4" ELSE "none"

SockaddrByString ==
    /\ call = NoCall
    /\ call' = [NoCall EXCEPT !.op = "by_string", !.todo = <<"getaddrinfo">>]
    /\ UNCHANGED <<open, owned, results, if_lists, ret>>

GetAddrinfo ==
    /\ call.todo # <<>> /\ Step = "getaddrinfo" /\ results = 0
    /\ results' = 1
    /\ UNCHANGED <<open, owned, if_lists, call, ret>>

(* In netx_open_2 anything but an address of IPv6 means IPv4, except that  *)
(* a list without addresses leaves IPv6.                                   *)
GetAddrinfoFails ==
    /\ call.todo # <<>> /\ Step = "getaddrinfo" /\ results = 0
    /\ IF call.op = "by_string" THEN Return(-1, "none")
       ELSE call' = [call EXCEPT !.todo = Tail(@), !.family = "v4"] /\ UNCHANGED ret
    /\ UNCHANGED <<open, owned, results, if_lists>>

(* Fault: a list without an address is not freed. *)
UseAddrinfoKeepsEmpty ==
    /\ call.todo # <<>> /\ Step = "getaddrinfo" /\ results = 1
    /\ \E found \in SUBSET {"v4", "v6"} :
         /\ results' = IF found = {} THEN 1 ELSE 0
         /\ IF call.op = "by_string" THEN Return(0, Family(found))
            ELSE /\ call' = [call EXCEPT !.todo = Tail(@),
                               !.family = IF Family(found) = "v4" THEN "v4" ELSE "v6"]
                 /\ UNCHANGED ret
    /\ UNCHANGED <<open, owned, if_lists>>

UseAddrinfo ==
    /\ call.todo # <<>> /\ Step = "getaddrinfo" /\ results = 1
    /\ \E found \in SUBSET {"v4", "v6"} :
         IF call.op = "by_string" THEN Return(0, Family(found))
         ELSE /\ call' = [call EXCEPT !.todo = Tail(@),
                            !.family = IF Family(found) = "v4" THEN "v4" ELSE "v6"]
              /\ UNCHANGED ret
    /\ results' = 0
    /\ UNCHANGED <<open, owned, if_lists>>

(* netx_get_local_ip_2 and netx_get_ifaddr: the list of interfaces.  The   *)
(* first address of IPv4 that is not 127.0.0.1 and the first of IPv6 that  *)
(* is not local are taken, and 0 is the result also without any.           *)
IfAddrs ==
    /\ call = NoCall
    /\ \/ /\ if_lists < MaxIfLists
          /\ if_lists' = if_lists + 1
          /\ \E found \in SUBSET {"v4", "v6"} : ret' = [value |-> 0, addr |-> Family(found)]
       \/ ret' = [value |-> -1, addr |-> "none"] /\ UNCHANGED if_lists
    /\ UNCHANGED <<open, owned, results, call>>

Close(fd) ==
    /\ call = NoCall /\ fd \in owned
    /\ open' = open \ {fd} /\ owned' = owned \ {fd}
    /\ UNCHANGED <<results, if_lists, call, ret>>

---------------------------------------------------------------------------
Next ==
    \/ NetxOpen \/ NetxConnect \/ NetxAccept \/ NetxGetLocalIp \/ NetxOpen2 \/ Refused
    \/ \E fd \in Fds : Opens(fd) \/ Close(fd)
    \/ Succeeds \/ Fails \/ ReturnFd
    \/ LocalIpBySocket \/ LocalIpByName \/ LocalIpSocket \/ LocalIpByInterface
    \/ SockaddrByString \/ GetAddrinfo \/ GetAddrinfoFails \/ UseAddrinfo
    \/ IfAddrs

Spec == Init /\ [][Next]_vars

---------------------------------------------------------------------------
(* Whichever system call fails, no function of netx leaves a descriptor    *)
(* open that it did not return, or one returned closed, or a list of       *)
(* getaddrinfo allocated (netx.c:521-931, 1165-1354).  It leaves the lists *)
(* of getifaddrs, which 933-1084 never free.                               *)
NothingLost ==
    call = NoCall => open = owned /\ results = 0

(* A descriptor returned is open and new; netx_get_local_ip succeeds only  *)
(* with an address, whichever of its three ways found it (netx.c:759-870). *)
ResultsMeanSomething ==
    [][/\ call.op \in {"netx_open", "netx_open_2", "netx_connect", "netx_accept"}
            /\ call' = NoCall /\ ret'.value >= 0
         => ret'.value \in open' \ owned
       /\ call.op \in {"netx_get_local_ip", "by_name", "by_interface"} /\ call' = NoCall
         => (ret'.value = 0 <=> ret'.addr # "none")]_vars
=============================================================================
