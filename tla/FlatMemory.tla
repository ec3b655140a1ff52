----------------------------- MODULE FlatMemory -----------------------------
(***************************************************************************)
(* What vmem_read and vmem_write promise a process (working/vmaccess.c):   *)
(* a flat array of ints.  A call is outstanding from its invocation until  *)
(* it takes effect and returns, both in one step; a read returns the value *)
(* last written to its address.  Pages, frames, the memory manager and the *)
(* page file do not exist here.                                            *)
(***************************************************************************)
EXTENDS Integers

CONSTANTS Clients,    \* processes that call vmem_read / vmem_write
          Addresses,  \* the addresses of the virtual memory
          Values,     \* the ints that are stored
          NoValue     \* placeholder where a call carries no value

VARIABLES mem,      \* [Addresses -> Values]
          request,  \* the outstanding call of each client, or NoRequest
          result    \* what the last vmem_read of each client returned

memvars == <<mem, request, result>>

Reads  == [op : {"read"},  addr : Addresses, val : {NoValue}]
Writes == [op : {"write"}, addr : Addresses, val : Values]
NoRequest == [op |-> "none", addr |-> 0, val |-> NoValue]

Init == /\ mem \in [Addresses -> Values]
        /\ request = [c \in Clients |-> NoRequest]
        /\ result = [c \in Clients |-> NoValue]

\* A client calls vmem_read or vmem_write.
Invoke(c) == \E r \in Reads \union Writes :
    /\ request[c] = NoRequest
    /\ request' = [request EXCEPT ![c] = r]
    /\ result' = [result EXCEPT ![c] = NoValue]
    /\ UNCHANGED mem

\* vmem_read returns the content of its address.
Read(c) == /\ request[c].op = "read"
           /\ result' = [result EXCEPT ![c] = mem[request[c].addr]]
           /\ request' = [request EXCEPT ![c] = NoRequest]
           /\ UNCHANGED mem

\* vmem_write replaces the content of its address and of no other.
Write(c) == /\ request[c].op = "write"
            /\ mem' = [mem EXCEPT ![request[c].addr] = request[c].val]
            /\ request' = [request EXCEPT ![c] = NoRequest]
            /\ UNCHANGED result

Next == \E c \in Clients : Invoke(c) \/ Read(c) \/ Write(c)

Spec == Init /\ [][Next]_memvars
=============================================================================
