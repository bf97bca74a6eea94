---------------------------- MODULE MCDrmAgpMap ----------------------------
(* DrmAgpMap scaled for TLC: 8-bit addresses and 4-bit sizes, 4-byte      *)
(* pages, the aperture at 128..191, bound blocks at 144..151 and 160..175, *)
(* a device with or without AGP and with none, one or both blocks bound.   *)
EXTENDS DrmAgpMap

MCBlock1 == [bound |-> 144, pages |-> 2]
MCBlock2 == [bound |-> 160, pages |-> 4]
MCMemories == {{}, {MCBlock1}, {MCBlock1, MCBlock2}}
=============================================================================
