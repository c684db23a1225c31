---------------------------- MODULE MCLifecycle ----------------------------
(* Small instances of Lifecycle: command lines of gvproxy, and one of      *)
(* win-sshproxy.                                                           *)
EXTENDS Lifecycle

CommandLines ==
  {<<"http", "qemu", "forward">>,
   <<"http", "vpnkit", "stdio">>,
   <<"http", "debug", "vfkit", "forwardURL">>,
   <<"proxy", "proxy">>}

Hyperkit == {<<"http", "vpnkit">>}
=============================================================================
