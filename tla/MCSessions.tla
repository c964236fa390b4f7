----------------------------- MODULE MCSessions ------------------------------
(* An instance of Sessions for model checking. *)
EXTENDS Sessions, TLC

CONSTANTS s1, s2, s3

\* Two routes that share their tenant and their device id.
Near == <<<<"t">>, <<"h">>, <<"d">>>>

Far == <<<<"t">>, <<"g">>, <<"d">>>>

TwoRoutes == {Near, Far}

\* Two connections of the host that replace each other on a route, and a
\* connection of the device, which may also come on the other route.
HostsAndDevice ==
  {<<s1, "host", Near>>, <<s2, "host", Near>>, <<s3, "device", Far>>,
   <<s3, "device", Near>>}

\* Two routes whose ids contain a slash, with a host and a device that have
\* each been bound on one of them.
Left == <<<<"t">>, <<"h">>, <<"x", "/", "d">>>>

Right == <<<<"t">>, <<"h", "/", "x">>, <<"d">>>>

SlashRoutes == {Left, Right}

HostAndOtherDevice == {<<s1, "host", Left>>, <<s2, "device", Right>>}

=============================================================================
