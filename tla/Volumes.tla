------------------------------- MODULE Volumes ------------------------------
(***************************************************************************)
(* From `-v host:container[:ro]` to a directory in a container: the shares *)
(* a command asks for (pelagos-mac/src/main.rs), the arguments its daemon  *)
(* is started with (daemon.rs), the bind mounts of `run`, and the way back *)
(* that `docker inspect` takes (pelagos-docker/src/main.rs).               *)
(*                                                                         *)
(* A path is the sequence of its components.  The daemon is the same       *)
(* program: it parses the --volume arguments it gets in the same way as    *)
(* the command that starts it parses its own.                              *)
(***************************************************************************)
EXTENDS Naturals, Sequences

CONSTANTS
    Home,      \* $HOME
    DataDir,   \* pelagos_base(): $XDG_DATA_HOME/pelagos, or a directory in $HOME
    Base       \* the base numbers are written in (10)

ASSUME VolumesAssumption ==
    /\ Base \in Nat /\ Base >= 2
    /\ Home \in Seq(STRING) /\ DataDir \in Seq(STRING)

Under(path, dir) == Len(path) >= Len(dir) /\ SubSeq(path, 1, Len(dir)) = dir

Below(path, dir) == SubSeq(path, Len(dir) + 1, Len(path))

(* A volume argument.  The home share has the empty container path.        *)
VolumeArg(host, at, ro) == [host |-> host, at |-> at, ro |-> ro]

VolumeArgType == [host : Seq(STRING), at : Seq(STRING), ro : BOOLEAN]

Digits[n \in Nat] == IF n < Base THEN <<n>> ELSE Append(Digits[n \div Base], n % Base)

(* Tags: "share" followed by a number, and "pelagos-volumes".              *)
ShareTag(i) == <<"share">> \o Digits[i]
VolumesTag == <<"pelagos-volumes">>

Share(tag, spec) == [tag |-> tag, host |-> spec.host, at |-> spec.at, ro |-> spec.ro]

parse_volumes(specs) == [i \in DOMAIN specs |-> Share(ShareTag(i - 1), specs[i])]

HomeSpec == VolumeArg(Home, <<>>, FALSE)

(* What is left of the arguments beside the home share.                    *)
OutsideHome(specs) ==
    LET kept[i \in 0..Len(specs)] ==
            IF i = 0 THEN <<>>
            ELSE IF Under(specs[i].host, Home) THEN kept[i - 1]
            ELSE Append(kept[i - 1], specs[i])
    IN  kept[Len(specs)]

(* Broken variant: every volume gets a share of its own.                   *)
build_virtiofs_shares_all(specs) == parse_volumes(<<HomeSpec>> \o specs)

(* `home_already_present`: the first argument is kept, and it is the home  *)
(* spec that would be put there otherwise.                                 *)
build_virtiofs_shares(specs) ==
    LET rest == IF specs # <<>> /\ Head(specs) = HomeSpec THEN Tail(specs) ELSE specs
    IN  parse_volumes(<<HomeSpec>> \o OutsideHome(rest))

VolumesSpec == VolumeArg(DataDir \o <<"volumes">>, <<"var", "lib", "pelagos", "volumes">>, FALSE)

(* The share list of a command, or of the daemon, given its -v arguments.  *)
daemon_args_from_cli(specs) ==
    <<Share(VolumesTag, VolumesSpec)>> \o build_virtiofs_shares(specs)

(* Every share, the volumes directory too, becomes a --volume argument.    *)
daemon_subprocess_args(shares) ==
    [i \in DOMAIN shares |-> VolumeArg(shares[i].host, shares[i].at, shares[i].ro)]

-----------------------------------------------------------------------------
(* The first share of those whose places in the list are given.            *)
FirstShare(shares, places) == shares[CHOOSE i \in places : \A j \in places : i =< j]

SharesOf(host, shares) == {i \in DOMAIN shares : shares[i].host = host}

(* Broken variant: the path below $HOME is forgotten.                      *)
GuestMountOfHome(spec, shares) ==
    IF Under(spec.host, Home) THEN [tag |-> ShareTag(0), sub |-> <<>>]
    ELSE [tag |-> FirstShare(shares, SharesOf(spec.host, shares)).tag, sub |-> <<>>]

(* Commands::Run: what a volume argument of the command asks the guest to  *)
(* bind: /mnt/<tag>/<sub>.                                                 *)
GuestMount(spec, shares) ==
    IF Under(spec.host, Home) THEN [tag |-> ShareTag(0), sub |-> Below(spec.host, Home)]
    ELSE [tag |-> FirstShare(shares, SharesOf(spec.host, shares)).tag, sub |-> <<>>]

(* The directories of the host seen there in a VM booted with these shares *)
(* (init mounts every share at /mnt/<tag>).                                *)
HostPaths(mount, shares) ==
    {shares[i].host \o mount.sub : i \in {j \in DOMAIN shares : shares[j].tag = mount.tag}}

(* The shim's way back, which `docker inspect` shows.  It compares         *)
(* strings: "/mnt/share1" is a prefix of "/mnt/share10" as well.           *)
translate_volume_spec(mount, shares) ==
    LET s == FirstShare(shares, {i \in DOMAIN shares : Under(mount.tag, shares[i].tag)})
    IN  s.host \o Below(mount.tag, s.tag) \o mount.sub
=============================================================================
