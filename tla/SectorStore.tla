---------------------------- MODULE SectorStore ----------------------------
(***************************************************************************)
(* What the buffer cache promises the file system: the disk behaves as one *)
(* array of sectors that cache_read and cache_write access atomically,     *)
(* some time between the call and the return.                              *)
(***************************************************************************)
CONSTANTS User, Sector, Byte, Value, NoRequest

VARIABLES store, request, read_buffer

Request ==
  LET Part == SUBSET Byte \ {{}}
  IN  [call : {"read"}, sector : Sector, bytes : Part]
        \cup [call : {"write"}, sector : Sector, bytes : Part, data : Value]

StoreInit ==
  /\ store \in [Sector -> [Byte -> Value]]
  /\ request = [u \in User |-> NoRequest]
  /\ read_buffer = [u \in User |-> <<>>]

Call(u, r) ==
  /\ request[u] = NoRequest
  /\ request' = [request EXCEPT ![u] = r]
  /\ read_buffer' = [read_buffer EXCEPT ![u] = <<>>]
  /\ UNCHANGED store

Access(u) ==
  LET r == request[u]
  IN  /\ r # NoRequest
      /\ request' = [request EXCEPT ![u] = NoRequest]
      /\ \/ /\ r.call = "read"
            /\ read_buffer' = [read_buffer EXCEPT ![u] = [b \in r.bytes |-> store[r.sector][b]]]
            /\ UNCHANGED store
         \/ /\ r.call = "write"
            /\ store' = [store EXCEPT ![r.sector] =
                           [b \in Byte |-> IF b \in r.bytes THEN r.data ELSE @[b]]]
            /\ UNCHANGED read_buffer

StoreNext == \E u \in User : Access(u) \/ \E r \in Request : Call(u, r)

StoreSpec == StoreInit /\ [][StoreNext]_<<store, request, read_buffer>>
=============================================================================
