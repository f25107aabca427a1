-------------------------- MODULE PolicyManager_MC --------------------------
(***************************************************************************)
(* The policy manager on short histories: a bad change of one file is      *)
(* repaired, and before that another policy or a file that is no policy    *)
(* changes.  What is bad depends on whether policies are validated.        *)
(***************************************************************************)
EXTENDS PolicyManager
CONSTANTS f1, f2

Save(f, kind) == [file |-> f, kind |-> kind]
Manager(m, on, h, ops, errs) == [mode |-> m, validation |-> on, history |-> h, operations |-> ops, errors |-> errs]
MCConfigurations == {
    Manager("git", TRUE, << Save(f1, "invalid"), Save(f1, "good") >>, 1, 1),
    Manager("git", TRUE, << Save(f1, "good"), Save(f2, "good") >>, 1, 1),
    Manager("git", TRUE, << Save(f1, "invalid"), Save(f2, "good"), Save(f1, "good") >>, 0, 1),
    Manager("git", FALSE, << Save(f1, "unparsable"), Save(OtherFile, "good"), Save(f1, "invalid") >>, 0, 1),
    Manager("file", TRUE, << Save(f1, "unparsable"), Save(f2, "good"), Save(f1, "good"), Save(f2, "good") >>, 0, 2),
    Manager("file", FALSE, << Save(f1, "good"), Save(f2, "unparsable"), Save(f1, "good"), Save(f2, "invalid") >>, 0, 1)}
=============================================================================
