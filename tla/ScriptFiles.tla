---------------------------- MODULE ScriptFiles ----------------------------
(***************************************************************************)
(* What each simulation script defines of the functions of NetworkScripts. *)
(***************************************************************************)
EXTENDS NetworkScripts

\* repotest/offered_load.py
OfferedLoad_createMesh(x_size, y_size, local_ports) == Mesh(x_size, y_size, local_ports, Plain)
OfferedLoad_createSimpleTorus(x_size, y_size) == BareTorus(x_size, y_size, "rtr_port")
OfferedLoad_FlattenedButterfly(k, n) == Butterfly(k, n, Plain)

\* repotest/16sept25/offered_load.py
Sept16_createMesh(x_size, y_size, local_ports) == Mesh(x_size, y_size, local_ports, Plain)
Sept16_createSimpleTorus(x_size, y_size) == BareTorus(x_size, y_size, "rtr_port")
Sept16_FlattenedButterfly(k, n) == Butterfly(k, n, Plain)

\* repotest/23sept25-2VC/offered_load.py
Sept23_createMesh(x_size, y_size, local_ports) == Mesh(x_size, y_size, local_ports, Plain)
Sept23_createSimpleTorus(x_size, y_size) == BareTorus(x_size, y_size, "rtr_port")
Sept23_FlattenedButterfly(k, n) == Butterfly(k, n, Plain)

\* repotest/30sept25-4VC/offered_load.py
Sept30_createMesh(x_size, y_size, local_ports) == Mesh(x_size, y_size, local_ports, Plain)
Sept30_createSimpleTorus(x_size, y_size) == BareTorus(x_size, y_size, "rtr_port")
Sept30_FlattenedButterfly(k, n) == Butterfly(k, n, Plain)

\* repotest/OfferedLoad.1VC/offered_load.py
OnePeerMore == [Plain EXCEPT !.peers = 1]
OneVcLoad_createMesh(x_size, y_size, local_ports) == Mesh(x_size, y_size, local_ports, OnePeerMore)
OneVcLoad_createSimpleTorus(x_size, y_size) == BareTorus(x_size, y_size, "rtr_port")
OneVcLoad_FlattenedButterfly(k, n) == Butterfly(k, n, Plain)

\* repotest/torus-7oct25/OneVC/offered_load.py
Oct7OneVc_createMesh(x_size, y_size, local_ports) == Mesh(x_size, y_size, local_ports, Plain)
Oct7OneVc_createSimpleTorus(x_size, y_size, local_ports) ==
  Torus(x_size, y_size, local_ports, Plain)
Oct7OneVc_FlattenedButterfly(k, n) == Butterfly(k, n, Plain)

\* repotest/torus-7oct25/TwoVC/offered_load.py
Oct7TwoVc_createMesh(x_size, y_size, local_ports) == Mesh(x_size, y_size, local_ports, Plain)
Oct7TwoVc_createSimpleTorus(x_size, y_size, local_ports) ==
  Torus(x_size, y_size, local_ports, Plain)
Oct7TwoVc_FlattenedButterfly(k, n) == Butterfly(k, n, Plain)

\* repotest/torus-7oct25/FourVC/offered_load.py
Oct7FourVc_createMesh(x_size, y_size, local_ports) == Mesh(x_size, y_size, local_ports, Plain)
Oct7FourVc_createSimpleTorus(x_size, y_size, local_ports) ==
  Torus(x_size, y_size, local_ports, Plain)
Oct7FourVc_FlattenedButterfly(k, n) == Butterfly(k, n, Plain)

\* repotest/merlin_testnic.py
MerlinTestNic_createMesh(x_size, y_size, local_ports) == Mesh(x_size, y_size, local_ports, Numbered)
MerlinTestNic_createSimpleTorus(x_size, y_size, local_ports) ==
  Torus(x_size, y_size, local_ports, Numbered)
MerlinTestNic_FlattenedButterfly(k, n) == Butterfly(k, n, Numbered)

\* repotest/trafficgen.py
TrafficGen_createMesh(x_size, y_size, local_ports) == Mesh(x_size, y_size, local_ports, Numbered)
TrafficGen_createSimpleTorus(x_size, y_size) == BareTorus(x_size, y_size, "port")
TrafficGen_FlattenedButterfly(k, n) == Butterfly(k, n, Numbered)

\* repotest/dot.py
Dot_createMesh(x_size, y_size, local_ports) == Mesh(x_size, y_size, local_ports, Plain)
Dot_createSimpleTorus(x_size, y_size) == BareTorus(x_size, y_size, "rtr_port")
Dot_FlattenedButterfly(k, n) == Butterfly(k, n, Plain)

\* merlin_testing/merlin_mesh.py, whose routers have five ports however many are local
MerlinMesh_createMesh(x_size, y_size) ==
  Mesh(x_size, y_size, 1, [Plain EXCEPT !.peers = 1, !.nicPort = "rtr_port"])
MerlinMesh_createSimpleTorus(x_size, y_size) == BareTorus(x_size, y_size, "rtr_port")
MerlinMesh_FlattenedButterfly(k, n) == Butterfly(k, n, Plain)
MerlinMesh_Crossbar(num_routers, local_ports) == Xbar(num_routers, local_ports)

\* repotest/mesh_testnic.py
MeshTestNic_createMesh(x_size, y_size, local_ports) == Mesh(x_size, y_size, local_ports, Numbered)

\* repotest/torus_testnic.py
TorusTestNic_createTorus(x_size, y_size, z_size, local_ports) ==
  Torus3D(x_size, y_size, z_size, local_ports, Numbered)

\* merlin_testing/failed_mesh.py
FailedMesh(x_size, y_size) == SingleRouter(x_size, y_size)
=============================================================================
