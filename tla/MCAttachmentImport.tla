------------------------- MODULE MCAttachmentImport -------------------------
(* Small instances of AttachmentImport.                                    *)
EXTENDS AttachmentImport, TLC

CONSTANTS p1, p2, u1, t1, t2, a, b

TwoImports == {p1, p2}
OneUpload  == {u1}
TwoNames   == {a, b}
TwoStamps  == {t1, t2}

Att(name, body) == [name |-> name, body |-> body]

\* Nothing, two files, and two of one name.
Templates ==
    { <<>>, <<Att(a, "v1"), Att(b, "v1")>>, <<Att(a, "v1"), Att(a, "v2")>> }

Symmetry == Permutations(TwoImports)

=============================================================================
