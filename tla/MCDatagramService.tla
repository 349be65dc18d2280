------------------------- MODULE MCDatagramService -------------------------
EXTENDS DatagramService

\* The answers of getifaddrs: no address, one of IPv6 only, and two of IPv4 with
\* that of another interface behind them.
MCAnswers == {
    << >>,
    <<Entry("own", "AF_INET6", "x")>>,
    <<Entry("own", "AF_INET", "a"), Entry("own", "AF_INET", "b"), Entry("other", "AF_INET", "o")>>}

\* An empty datagram, the longest that fits and one that does not.
MCDatagrams == {
    [from |-> sockaddr("p", 5353), data |-> "empty", len |-> 0],
    [from |-> sockaddr("q", 258), data |-> "full", len |-> Room],
    [from |-> sockaddr("q", 5353), data |-> "long", len |-> Room + 1]}
=============================================================================
