---------------------------- MODULE MCController ----------------------------
(***************************************************************************)
(* Instances of Controller for TLC: the strings, the specifications that   *)
(* the users of each run write, and the disturbances it allows.            *)
(***************************************************************************)
EXTENDS Controller, TLC

MCText == {"", "acme", "self-signed", "none", "minimal", "scipy", "host",
           "hidden", "numpy", "scikit", "=bad"}
MCHosts == {"host"}
MCPackageNames == {"numpy", "scikit"}
MCPackageVersions == {"numpy", "scikit"}

\* A specification as kubectl sends it, with only what the user gave.
Given == [flavor |-> Nil, gpu |-> FALSE, host |-> "host", ingress |-> Nil,
          packages |-> <<>>, password |-> Nil, serviceAccountName |-> Nil,
          tls |-> Nil]
Plain == SetDefaults(Given)

WithPassword == [Plain EXCEPT !.password = "hidden"]
WithoutTLS == [Plain EXCEPT !.tls = "none"]
WithAcme == [Plain EXCEPT !.tls = "acme"]
WithFlavor == [Plain EXCEPT !.flavor = "scipy"]
WithNumpy == [Plain EXCEPT !.packages = <<<<"numpy">>>>]
WithScikit == [Plain EXCEPT !.packages = <<<<"scikit">>>>]
WithGPU == [Plain EXCEPT !.gpu = TRUE]
Hostless == [Given EXCEPT !.host = Nil]
BadPackage == [Plain EXCEPT !.packages = <<<<"=bad">>>>]

None == [d \in Disturbances |-> 0]

-----------------------------------------------------------------------------
\* The user turns a notebook without a password into one that has one.
EditSpecs == {Given, WithPassword}
EditLimits == [None EXCEPT !.create = 1, !.edit = 1]

\* The same, while the operator is killed: with the old StatefulSet deleted and
\* the new one not yet made, or with a secret of the old authority.
CrashLimits == [EditLimits EXCEPT !.restart = 1]

\* An object of somebody else is in the way, or takes the place of one of the
\* operator's; requests and answers are lost, watches break.
ForeignSpecs == {Given, WithAcme}
ForeignLimits == [None EXCEPT !.create = 1, !.edit = 1, !.drop = 1, !.foreign = 1,
                              !.fault = 1, !.relist = 1]

\* Everything that can go wrong with a pod, and with the requests for it.
FaultSpecs == {Plain, BadPackage}
FaultLimits == [None EXCEPT !.create = 1, !.delete = 1, !.fault = 1,
                            !.unready = 1, !.lost = 1]

\* A notebook is deleted and made again, in a cluster that collects garbage.
AgainSpecs == {Plain}
AgainLimits == [None EXCEPT !.create = 2, !.delete = 1]

\* A rollout: an operator takes over while the one before it still runs, and a
\* notebook may be deleted between the two.
RolloutLimits == [None EXCEPT !.create = 1, !.delete = 1, !.restart = 1, !.rival = 1]

PackageSpecs == {WithNumpy, WithScikit}
GPUSpecs == {WithGPU}
HostlessSpecs == {Hostless}
OnceLimits == [None EXCEPT !.create = 1]
=============================================================================
