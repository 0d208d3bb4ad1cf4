------------------------------ MODULE MCBrowser ------------------------------
(***************************************************************************)
(* Two tenants with a conversation each, and one the first may create; two *)
(* messages, the first with a reply of up to three events, or both with    *)
(* replies of three events in all.                                         *)
(***************************************************************************)
EXTENDS Browser
CONSTANTS ann, bob, a1, a2, b1
MCTenantIds == {ann, bob}
MCConvs == {a1, a2, b1}
MCTenantOf == [c \in MCConvs |-> IF c = b1 THEN bob ELSE ann]
MCMaxEvents == <<3, 1>>
MCOld == {a1, b1}
=============================================================================
