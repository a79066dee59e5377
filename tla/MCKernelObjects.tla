---------------------------- MODULE MCKernelObjects ----------------------------
(* Five virtual pages with a hole in the canonical ones, small and double  *)
(* pages; two contexts; two CPUs; one device behind an IOMMU and one       *)
(* without; a heap of three pages; three CPUs at a barrier; traces of      *)
(* three events on two cells; devices of four bytes; containers of three.  *)
EXTENDS KernelObjects

MCFrameCaps == {[base |-> 0, len |-> 2], [base |-> 3, len |-> 1]}

MCRequests == {[device |-> "disk", domain |-> 1, region |-> "low"],
               [device |-> "net", domain |-> 2, region |-> "high"]}

MCDomains == {[id |-> 1, device |-> "disk", present |-> TRUE],
              [id |-> 2, device |-> "net", present |-> FALSE],
              [id |-> 2, device |-> "net", present |-> TRUE]}

(* Buffers inside one page and across two. *)
MCBuffers == {<<0>>, <<0, 1>>}

(* One range from the start, one that is not aligned and passes the end. *)
MCCaps == {[base |-> 0, len |-> 4], [base |-> 1, len |-> 6]}

MCCellWidths == {[bytes |-> 1, limit |-> 2], [bytes |-> 2, limit |-> 4],
                 [bytes |-> 4, limit |-> 8]}
=============================================================================
