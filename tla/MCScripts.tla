----------------------------- MODULE MCScripts -----------------------------
(***************************************************************************)
(* BuildScript on every function of the scripts: those a script calls with *)
(* the sizes it calls them with, the others with the sizes it has for them *)
(* or small ones, and a mesh and a 3D torus with two endpoints a router.   *)
(***************************************************************************)
EXTENDS BuildScript

File   == INSTANCE ScriptFiles
Memory == INSTANCE MemoryScripts

Early == <<File!OfferedLoad_createMesh(3, 3, 1), File!OfferedLoad_createSimpleTorus(3, 3),
           File!OfferedLoad_FlattenedButterfly(2, 4),
           File!Sept16_createMesh(3, 3, 1), File!Sept16_createSimpleTorus(3, 3),
           File!Sept16_FlattenedButterfly(4, 2),
           File!Sept23_createMesh(3, 3, 1), File!Sept23_createSimpleTorus(3, 3),
           File!Sept23_FlattenedButterfly(4, 2),
           File!Sept30_createMesh(3, 3, 1), File!Sept30_createSimpleTorus(3, 3),
           File!Sept30_FlattenedButterfly(4, 2),
           File!OneVcLoad_createMesh(3, 3, 1), File!OneVcLoad_createSimpleTorus(3, 3),
           File!OneVcLoad_FlattenedButterfly(4, 2),
           File!Dot_createMesh(3, 3, 1), File!Dot_createSimpleTorus(3, 3),
           File!Dot_FlattenedButterfly(4, 2),
           File!MerlinMesh_createMesh(2, 2), File!MerlinMesh_createSimpleTorus(3, 4),
           File!MerlinMesh_FlattenedButterfly(4, 2), File!MerlinMesh_Crossbar(6, 1),
           File!FailedMesh(3, 3)>>

Later == <<File!Oct7OneVc_createMesh(3, 3, 1), File!Oct7OneVc_createSimpleTorus(3, 3, 1),
           File!Oct7OneVc_FlattenedButterfly(4, 2),
           File!Oct7TwoVc_createMesh(3, 3, 1), File!Oct7TwoVc_createSimpleTorus(3, 3, 1),
           File!Oct7TwoVc_FlattenedButterfly(4, 2),
           File!Oct7FourVc_createMesh(3, 3, 1), File!Oct7FourVc_createSimpleTorus(3, 3, 1),
           File!Oct7FourVc_FlattenedButterfly(3, 3),
           File!MerlinTestNic_createMesh(8, 5, 1), File!MerlinTestNic_createSimpleTorus(8, 5, 1),
           File!MerlinTestNic_FlattenedButterfly(4, 2),
           File!TrafficGen_createMesh(5, 3, 2), File!TrafficGen_createSimpleTorus(5, 3),
           File!TrafficGen_FlattenedButterfly(4, 2),
           File!MeshTestNic_createMesh(3, 3, 1), File!TorusTestNic_createTorus(5, 5, 1, 1),
           File!TorusTestNic_createTorus(3, 3, 3, 2)>>

Systems == <<Memory!testKingsley, Memory!testMemoryCache, Memory!testBridge>>
Sizes   == <<Memory!KingsleyCapacity, Memory!MemoryCacheCapacity, Memory!BridgeCapacity>>

All  == Early \o Later \o Systems
AllSizes == [s \in DOMAIN (Early \o Later) |-> 0] \o Sizes

\* What a cfg gives to a constant TLC evaluates at every use, but the definitions
\* it refers to only once.
MCScripts  == All
MCCapacity == AllSizes
=============================================================================
