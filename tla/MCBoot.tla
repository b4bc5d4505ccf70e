------------------------------- MODULE MCBoot -------------------------------
(***************************************************************************)
(* TLC instance of Boot: pages of 4 bytes, memory maps of up to three      *)
(* entries in either order, with one more usable than there are slots, one *)
(* that begins where another ends and one at address 0, and what the       *)
(* parser of a small tree may want.                                        *)
(***************************************************************************)
EXTENDS Boot

MCRegionArgs == {[base |-> 0, size |-> 4], [base |-> 8, size |-> 8],
                 [base |-> 16, size |-> 40], [base |-> 61, size |-> 30]}
MCSizes == {4, 8}
MCAlignments == {4}
MCPolicies == {"FIRST_FIT"}

MCStacks == {"nodes", "properties"}
MCSizeOf == [s \in MCStacks |-> IF s = "nodes" THEN 3 ELSE 1]

Entries(type) == {[base |-> r.base, length |-> r.size, type |-> type] : r \in MCRegionArgs}
MemMaps ==
    LET distinct(m) == \A i, j \in 1 .. Len(m) : i # j => m[i].base # m[j].base
    IN  {m \in SeqOf(Entries("USABLE") \cup Entries("RESERVED"), 3) : distinct(m)}

Emplace(s) == [op |-> "emplace", stack |-> s]
Region(n) == [op |-> "region", stack |-> "nodes", size |-> n]
Trees ==
    LET n == Emplace("nodes")  p == Emplace("properties")
    IN  {[wants |-> w, err |-> "SUCCESS"] :
            w \in {<<n, p, p, n, n, p, p, p, n, n>>, <<p, n, p, n, p, n, Region(8), Region(4)>>,
                   <<n, n, n, n, n, n, n, n, Region(4), p, n>>}}
        \cup {[wants |-> <<>>, err |-> "DT_MAGIC_NUMBER"],
              [wants |-> <<n, n, p>>, err |-> "DT_REWRITE_FAILED"]}

Answer(answered, mode, framebuffers, memmap, blob) ==
    [answered |-> answered, mode |-> mode, framebuffer_count |-> framebuffers,
     memmap |-> memmap, blob |-> blob]

\* Every map with every tree, and one of each with what else may be missing.
MCLoaders ==
    LET map  == CHOOSE m \in MemMaps : Len(m) = 1 /\ m[1].type = "USABLE" /\ m[1].length = 40
        tree == [wants |-> <<Emplace("nodes"), Emplace("properties")>>, err |-> "SUCCESS"]
    IN  {Answer(Requests, "SV39", 1, m, t) : m \in MemMaps, t \in Trees}
        \cup {Answer(Requests \ {r}, "SV39", 1, map, tree) : r \in Requests}
        \cup {Answer(Requests, mode, f, map, tree) : mode \in {"SV39", "SV48"}, f \in {0, 1}}
=============================================================================
