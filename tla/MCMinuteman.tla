---------------------------- MODULE MCMinuteman -----------------------------
EXTENDS Minuteman

\* Everything dynamic with prefix delegation, and a static run that extends
\* the WAN's prefix.
MCFlags == {{"pd", "dns", "dhcpv4", "aftrDynamic", "b4Dynamic"}, {"ndproxy"}}

\* -tcp-mss-clamp auto
MCAuto == -1

=============================================================================
