---------------------------- MODULE MCVgaBuffer ----------------------------
\* Small instances of VgaBuffer.
EXTENDS VgaBuffer

MCPrintable == {"a", "b", " "}

\* The rows of the old screen are told apart, so that scrolling shows.
MCScreen0 ==
    [r \in Rows |-> [c \in Cols |-> <<"old0", "old1", "old2">>[r + 1]]]

\* A full row, an empty line, a row that wraps, and bytes that are not printable.
MCMessages ==
    {[kind |-> "fmt", text |-> <<"a", "b">>],
     [kind |-> "fmt", text |-> <<"\t", "\n">>],
     [kind |-> "bytes", text |-> <<"a", "\t", "b">>],
     [kind |-> "bytes", text |-> <<"\n">>]}
=============================================================================
