------------------------------- MODULE MCHost -------------------------------
(* Host for TLC.                                                            *)
EXTENDS Host, MirrorLines, HostNetLines, Sequences

-----------------------------------------------------------------------------
(* Source files as distributions and earlier runs of lkit leave them: up to *)
(* two entries in the main file, among them a mirror, a host that is not    *)
(* recognised, the security repository, an installation disc.               *)
UpToTwo(L) == {<<>>} \cup {<<x>> : x \in L} \cup {<<x, y>> : x \in L, y \in L}
Hosts(lists, extras) == [list: lists, extra: extras]

AptLines ==
  {Deb(TRUE, "official", "main", {"main"}), Deb(TRUE, "a", "main", Comps),
   Deb(TRUE, "b", "main", {"contrib"}), Deb(TRUE, "custom", "main", {"main"}),
   Deb(TRUE, "official", "security", {"main"}), Cdrom(TRUE)}
DnfSections ==
  {Repo(TRUE, "official", FALSE), Repo(FALSE, "placeholder", TRUE),
   Repo(FALSE, "none", TRUE), Repo(TRUE, "custom", FALSE)}
ApkLines == {Server(TRUE, "official"), Server(TRUE, "custom"), Server(FALSE, "a")}

MCLayouts ==
  [apt |-> Hosts(UpToTwo(AptLines), {Absent, <<Cdrom(TRUE)>>})
             \cup Hosts({Absent}, {Absent, <<Deb(FALSE, "a", "main", Comps)>>, <<Deb(TRUE, "custom", "main", {"main"})>>}),
   dnf |-> Hosts(UpToTwo(DnfSections), {Absent, <<Repo(TRUE, "a", FALSE)>>}),
   pacman |-> Hosts({<<Server(TRUE, "custom"), Server(TRUE, "a")>>, Absent}, {Absent}),
   apk |-> Hosts(UpToTwo(ApkLines) \cup {Absent}, {Absent})]

-----------------------------------------------------------------------------
(* Two interfaces and a bridge, configured in one file or in two.           *)
Static == Option("address", "none")
Mains ==
  {<<Auto({"e0", "e1"}), Iface("e0", "static", "none"), Static, Comment, Iface("e1", "dhcp", "none"), Source("extra")>>,
   <<Source("extra"), Auto({"e0", "e1"}), Iface("e1", "manual", "none"), Static>>,
   <<Iface("e0", "manual", "none"), Iface("e1", "static", "e0"), Source("extra")>>,
   <<Auto({"*"}), Iface("e0", "dhcp", "none"), Iface("e1", "ppp", "none")>>,
   <<Mapping("e1"), Static, Iface("e0", "dhcp", "none"), Static, Source("extra")>>,
   <<Static, Iface("e0", "dhcp", "none")>>}
Extras ==
  {<<>>,
   <<Iface("e0", "static", "none"), Static, Static, Source("main"), Auto({"e0"})>>,
   <<Auto({"br"}), Iface("br", "static", "none"), Option("bridge_ports", "e1"), Iface("e1", "static", "br")>>,
   <<Rename("e1", "e2"), Iface("e2", "dhcp", "none")>>}

MCSelections == {{"e0"}, {"e1"}, {"e0", "e1"}}
MCContents == [main |-> Mains, extra |-> Extras]

-----------------------------------------------------------------------------
(* Releases as the API may list them, with candidates written both ways, a  *)
(* draft and a tag that is no version.                                      *)
Rel(b, rc, plain, draft, valid) ==
  [base |-> b, rc |-> rc, plain |-> plain, flag |-> rc # 0, draft |-> draft, valid |-> valid]
MCRelease ==
  {Rel(1, 0, FALSE, FALSE, TRUE), Rel(2, 2, TRUE, FALSE, TRUE), Rel(2, 10, TRUE, FALSE, TRUE),
   Rel(2, 3, FALSE, FALSE, TRUE), Rel(2, 0, FALSE, TRUE, TRUE), Rel(3, 0, FALSE, FALSE, FALSE)}

-----------------------------------------------------------------------------
(* The parts that are not the chosen one rest. *)
Rests ==
  /\ part # "mirrors" => host.family = "pacman" /\ files.list = Absent
  /\ part # "net" => interfaces.main = <<Static, Iface("e0", "dhcp", "none")>> /\ interfaces.extra = <<>>
  /\ part # "self" => manager = "systemd" /\ sys.reg = "missing"

(* SideBySide, begun in a state where they do. *)
Begins == Parts /\ Rests
OneAtATime == Begins /\ [][Steps]_all
=============================================================================
