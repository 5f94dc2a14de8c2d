------------------------------ MODULE MCServer ------------------------------
(* The instance of Server for TLC. *)
EXTENDS Server

CONSTANTS r1, r2

Two == {r1, r2}

Plain == [id |-> TRUE, floor |-> 0, media |-> {"banner"}]
Unnamed == [Plain EXCEPT !.id = FALSE]
Priced == [Plain EXCEPT !.floor = 20, !.media = {"banner", "video"}]
Negative == [Plain EXCEPT !.floor = -1, !.media = {"video"}]
Bare == [Plain EXCEPT !.floor = 1, !.media = {}]

Valid == [body |-> "object", header |-> Absent, altHeader |-> Absent,
          ext |-> Absent, altExt |-> Absent, source |-> FALSE, regs |-> FALSE,
          rwdd |-> FALSE, auctionType |-> TRUE, id |-> TRUE, imps |-> <<Plain>>]

\* One input for each way through the parser, the validation and the
\* response: an empty string is a version an extension, but not a header, can
\* declare, and rwdd is a field of the first impression.  What is read of a
\* body that breaks off goes the way of a malformed one.
Paths ==
    {[Valid EXCEPT !.rwdd = TRUE, !.imps = <<Priced, Negative, Bare>>],
     [Valid EXCEPT !.header = "3.0", !.ext = "2.4"],
     [Valid EXCEPT !.altHeader = "2.1", !.auctionType = FALSE],
     [Valid EXCEPT !.ext = "", !.altExt = "2.4"],
     [Valid EXCEPT !.source = TRUE, !.rwdd = TRUE],
     [Valid EXCEPT !.regs = TRUE, !.auctionType = FALSE],
     [Valid EXCEPT !.id = FALSE],
     [Valid EXCEPT !.altExt = "2.0", !.imps = <<>>],
     [Valid EXCEPT !.imps = <<Priced, Unnamed>>]}
    \cup {[Valid EXCEPT !.body = b] : b \in {"nil", "empty", "malformed"}}

Looks(answer, took, share, highMemory) ==
    [path |-> "/health", ping |-> [answer |-> answer, took |-> took],
     share |-> share, highMemory |-> highMemory]

\* Each mark from both sides, and a critical status with a lesser cause for
\* concern beside it.
Marks ==
    {Looks("pong", 1000, 70, FALSE), Looks("pong", 1000, 71, FALSE),
     Looks("pong", 1000, 70, TRUE), Looks("pong", 1001, 70, FALSE),
     Looks("error", 2000, 71, TRUE), Looks("error", 2001, 90, FALSE),
     Looks("error", 2001, 91, TRUE), Looks("noClient", 0, 70, TRUE),
     [Looks("noClient", 0, 70, FALSE) EXCEPT !.path = "/metrics"]}

Settings(port, environment) == [port |-> port, environment |-> environment]
None == Settings(<<>>, <<>>)

Read(variables, settings) ==
    [variables |-> variables, file |-> "read", settings |-> settings]
Without(variables, file) ==
    [variables |-> variables, file |-> file, settings |-> None]

\* Settings given by a variable, by the file, by both and by neither, with a
\* good value that must win over a bad one and a bad one that must not be
\* passed over; the first two start a server.
Starts ==
    {Without(None, "missing"),
     Read(Settings(<<65535>>, <<>>), Settings(<<0>>, <<"test">>)),
     Without(Settings(<<>>, <<"production">>), "broken"),
     Read(Settings(<<65536>>, <<>>), Settings(<<9090>>, <<"test">>)),
     Read(Settings(<<>>, <<"qa">>), Settings(<<>>, <<"test">>)),
     Read(None, Settings(<<0>>, <<>>)),
     Read(None, Settings(<<>>, <<"">>))}

=============================================================================
