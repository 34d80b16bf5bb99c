----------------------------- MODULE MCRecovery -----------------------------
(***************************************************************************)
(* Images for Recovery.  The file system of the good copies has 1024-byte  *)
(* blocks and four groups of eight, so that its backups, in groups 1 and 3, *)
(* are the copies at 9216 and 25600.  With groups of sixteen blocks, as in *)
(* one of the damaged primaries, discovery reads offset 17408, which holds *)
(* file data.                                                              *)
(***************************************************************************)
EXTENDS Recovery, TLC

MCOffsets == {1024, 9216, 17408, 25600}

Good(late) ==
    [f \in Field |->
        CASE f = "inodes_count" -> 64
          [] f = "blocks_count_lo" -> 33
          [] f = "first_data_block" -> 1
          [] f = "blocks_per_group" -> 8
          [] f = "inodes_per_group" -> 16
          [] f = "magic" -> EXT4_SUPER_MAGIC
          [] f = "inode_size" -> 256
          [] f = "uuid" -> 7
          [] f = "late" -> late
          [] OTHER -> 0]

Junk == [f \in Field |-> 5]

NoMagic == [Good(9) EXCEPT !["magic"] = 0]

BadStructure == [Good(2) EXCEPT !["inode_size"] = 100, !["blocks_per_group"] = 16]

WideGroups == [Good(9) EXCEPT !["blocks_per_group"] = 16]

NoGeometry == [Good(9) EXCEPT !["log_block_size"] = 7]

(* Four groups of the largest size: the last starts beyond OffMax. *)
HugeGroups == [Good(9) EXCEPT !["blocks_per_group"] = W32 - 1,
                              !["blocks_count_hi"] = 3, !["incompat64"] = 1,
                              !["blocks_count_lo"] = W32 - 2]

Image(p, first, second) ==
    (1024 :> p @@ 9216 :> first @@ 17408 :> Junk @@ 25600 :> second)

(* For two processes: the geometry survives in the primary, the magic not. *)
SharedImages == {Image(NoMagic, Good(1), Good(3)), Image(NoMagic, Good(1), BadStructure)}

Processes == Permutations(Proc)

DamagedImages ==
    {Image(p, Good(1), b) : p \in {Good(0), NoMagic, WideGroups, NoGeometry, HugeGroups},
                            b \in {Good(3), BadStructure}}
=============================================================================
