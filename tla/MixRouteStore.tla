--------------------------- MODULE MixRouteStore ---------------------------
(***************************************************************************)
(* The shared-port store with policy routes ("mix-route" mode,             *)
(* src/pkg/ipam/backend/neutron/mix_route_store.go).  Reserve, the ledger  *)
(* walk and the ledger-file removal are the same code as in mix mode and   *)
(* are taken from MixStore.  What differs is where Release gets the port:  *)
(* NewMixRouteStore reads the host port (hostPortsSlice[0], with its fixed *)
(* IPs) when the plugin builds the store, before the allocator takes the  *)
(* file lock, and removePort edits and submits that copy.                  *)
(***************************************************************************)
EXTENDS MixStore

VARIABLE
    hostPort    \* per container: s.hostPort.FixedIPs read by NewMixRouteStore

mrVars == <<fixedIPs, ledger, lockHolder, op, pc, snap, ip, added, dels, status,
            assigned, hostPort>>

MRTypeOK ==
    /\ TypeOK
    /\ hostPort \in [Containers -> SUBSET (Addrs \cup {HostIP})]

MRInit ==
    /\ Init
    /\ hostPort = [c \in Containers |-> {}]

\* StoreFactory -> NewMixRouteStore: as NewMixStore, and in addition find
\* the router; the first port holding the host address is kept whole, its
\* fixed-IP list included.  Only the DEL path reads the copy, so an ADD's
\* copy is not recorded.
NewMixRouteStore(c) ==
    /\ pc[c] = "new"
    /\ \/ Fault(c) /\ UNCHANGED hostPort
       \/ /\ pc' = [pc EXCEPT ![c] = "lock"]
          /\ hostPort' = [hostPort EXCEPT ![c] = IF op[c] = "del" THEN fixedIPs
                                                                ELSE {}]
          /\ UNCHANGED <<lockHolder, op, snap, ip, status, assigned>>
    /\ UNCHANGED <<fixedIPs, ledger, added, dels>>

\* removePort: findIndex over s.hostPort.FixedIPs; a miss is an error; a
\* hit removes the entry from the copy and submits the copy with ports.Update.
RemovePort(c) ==
    /\ pc[c] = "dget"
    /\ \/ ip[c] \notin hostPort[c] /\ Fail(c) /\ UNCHANGED fixedIPs
       \/ /\ ip[c] \in hostPort[c]
          /\ \/ Fault(c) /\ UNCHANGED fixedIPs       \* error, no effect
             \/ /\ fixedIPs' = hostPort[c] \ {ip[c]}
                /\ \/ Fault(c)                       \* applied, reply lost
                   \/ /\ pc' = [pc EXCEPT ![c] = "remove"]
                      /\ UNCHANGED <<lockHolder, op, snap, ip, status, assigned>>
    /\ UNCHANGED <<ledger, added, dels>>

\* The store, and its copy of the port, lives as long as the plugin process.
DropStore(c) ==
    hostPort' = [hostPort EXCEPT ![c] = IF op'[c] = "none" THEN {} ELSE @]

MRStoreStep(c) ==
    /\ \/ Lock(c)
       \/ ReserveGetPort(c) \/ ReserveUpdatePort(c)
       \/ ReserveCreateFile(c) \/ ReserveWriteFile(c)
       \/ ReleaseWalk(c) \/ RemovePort(c) \/ ReleaseRemoveFile(c)
    /\ DropStore(c)

MRProgress(c) == NewMixRouteStore(c) \/ MRStoreStep(c)

MRNext ==
    \E c \in Containers :
        \/ CmdAdd(c) /\ UNCHANGED hostPort
        \/ CmdDel(c) /\ UNCHANGED hostPort
        \/ MRProgress(c)
        \/ Crash(c) /\ DropStore(c)

MRFairness == \A c \in Containers : WF_mrVars(MRProgress(c))

MRSpec == MRInit /\ [][MRNext]_mrVars /\ MRFairness

=============================================================================
