----------------------------- MODULE HostLookup -----------------------------
(***************************************************************************)
(* The instance lookup of src/pkg/ipam/backend/neutron/utils.go:           *)
(* FindServer, which the ENI store and the scheduler plugin use to find    *)
(* the Nova server of the host from the host's own address, and            *)
(* CountServerIntsAndEnis, which the scheduler's Filter and PreScore use.  *)
(*                                                                         *)
(* Strings are sequences of one-character strings, so that strings.Contains*)
(* and fmt.Sprintf("%v") are modelled by what they do.  Addresses are      *)
(* dotted pairs of decimal octets; a server's Addresses map holds, per     *)
(* network, the list of its address maps.                                  *)
(***************************************************************************)
EXTENDS Naturals, Sequences, SequencesExt

CONSTANTS
    Octets,      \* decimal octets, as digit sequences
    MaxServers,  \* length of the server list
    MaxNets,     \* networks per server (keys of server.Addresses)
    MaxAddrs     \* addresses per network

IPs == {o1 \o <<".">> \o o2 : o1, o2 \in Octets}

\* A server: the value lists of its Addresses map, in Go's iteration order.
\* Lists(S, n): the sequences of at most n distinct elements of S.
Lists(S, n) == {s \in BoundedSeq(S, n) : IsInjective(s)}

Addresses(server) == UNION {Range(server[n]) : n \in 1..Len(server)}

NumAddresses(server) == Cardinality(Addresses(server))

\* Server lists as Nova returns them: every server on some network, and an
\* address held by one server only.
ServerLists ==
    {svs \in Lists({s \in Lists({l \in Lists(IPs, MaxAddrs) : l # <<>>}, MaxNets)
                       : s # <<>>}, MaxServers) :
        \A i, j \in 1..Len(svs) :
            /\ i # j => Addresses(svs[i]) \cap Addresses(svs[j]) = {}
            /\ \A n, m \in 1..Len(svs[i]) :
                   n # m => Range(svs[i][n]) \cap Range(svs[i][m]) = {}}

VARIABLES
    servers,   \* servers.List(...).AllPages(), extracted
    host       \* serverIP: the first address of the host interface

vars == <<servers, host>>

\* The host is one of the listed servers.
Init ==
    /\ servers \in ServerLists
    /\ host \in UNION {Addresses(servers[i]) : i \in 1..Len(servers)}

\* Pure functions: the inputs never change.
Next == UNCHANGED vars

Spec == Init /\ [][Next]_vars

-----------------------------------------------------------------------------
\* One address map as %v prints it:
\*   map[OS-EXT-IPS-MAC:mac_addr:<mac> OS-EXT-IPS:type:fixed addr:<a> version:4]
\* The text around the address holds no '.', so it is kept as the
\* characters that border the address: ':' before it, " 4]" after it.
FormatAddr(a) == <<"m", ":">> \o a \o <<" ", "4", "]">>

\* fmt.Sprintf("%v", v) of one network's list: "[" entries joined by " " "]".
Format(net) ==
    <<"[">>
    \o FlattenSeq([i \in 1..Len(net) |->
                      (IF i = 1 THEN <<>> ELSE <<" ">>) \o FormatAddr(net[i])])
    \o <<"]">>

\* strings.Contains(s, sub).
StrContains(s, sub) == sub \in SubSeqs(s)

\* FindServer: the first server (index; 0 is nil) with a network whose
\* printed address list contains serverIP.
FindServer(svs, ip) ==
    SelectInSeq(svs, LAMBDA s : \E n \in 1..Len(s) : StrContains(Format(s[n]), ip))

\* CountServerIntsAndEnis: (len(attachInterfaces), len(server.Addresses)).
\* With no server found, server.ID dereferences nil.
CountServerIntsAndEnis(svs, ip, enis) ==
    IF FindServer(svs, ip) = 0 THEN "panic"
    ELSE <<enis, Len(svs[FindServer(svs, ip)])>>

-----------------------------------------------------------------------------
(* Properties *)

\* Reference: the server that holds serverIP as one of its addresses.
ExactServer(svs, ip) == SelectInSeq(svs, LAMBDA s : ip \in Addresses(s))

\* Spec 4.3: the host is resolved by matching its own address against the
\* instance inventory.  FindServer must return the server that holds that
\* address, not the first one with an address that merely contains it.
FindServerExact == FindServer(servers, host) = ExactServer(servers, host)

\* The scheduler compares the second count with MaxInstanceIps ("the ips of
\* instance"): it should be the number of the instance's addresses.
CountedIpsAreAddresses ==
    FindServer(servers, host) # 0 =>
        CountServerIntsAndEnis(servers, host, 0)[2]
            = NumAddresses(servers[FindServer(servers, host)])

=============================================================================
