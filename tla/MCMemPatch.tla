----------------------------- MODULE MCMemPatch -----------------------------
(* Two pages of three bytes: a patch whose second byte a patch_jmp32       *)
(* overwrites again, a trampoline, a patched byte that the game writes, as *)
(* at 0x927cc8, and a byte of the other page that only others write.       *)
EXTENDS MemPatch

CONSTANTS nop, jmp

MCSites      == {<<0, 2>>, <<3, 1>>}
\* As at 0x417aba, where patch_mem puts the opcode patch_jmp32 looks for.
MCJmpSites   == {<<1, 1>>}
MCTrampSites == {<<4, 1>>}
MCForeign    == {2, 3}

MCMemories == {[a \in 0 .. 5 |-> IF a \in {2, 4} THEN jmp ELSE nop]}

ASSUME SitesFitHere == SitesFit
=============================================================================
