------------------------------ MODULE GapLimit ------------------------------
(***************************************************************************)
(* utils/bip44: which addresses of an HD wallet have to be derived so that *)
(* an account always looks Gap unused addresses ahead (BIP44).             *)
(*                                                                         *)
(* An address is <<account, type, index>>, the last three levels of its    *)
(* path that vary.  The store keeps the addresses of every account of the  *)
(* wallet together, by type.                                               *)
(***************************************************************************)
EXTENDS Integers

CONSTANT Gap        \* CONSTANTS.BIP44_ADDRESS_GAP

ASSUME GapAssumption == Gap \in Nat \ {0}

Types == {"external", "internal"}

\* All indexes up to the largest of a set.
UpTo(indexes) == UNION {0..i : i \in indexes}

\* All indexes of a type, whatever the account.
IndexesOf(known, type) == {a[3] : a \in {b \in known : b[2] = type}}

\* The indexes of one account.
OwnIndexes(known, account, type) ==
    {a[3] : a \in {b \in known : b[1] = account /\ b[2] = type}}

\* getMissingIndexes
MissingIndexes(indexes) == UpTo(indexes) \ indexes

\* Mutated form: the first path needs a predecessor, too.
ContiguousFromOne(indexes) == \A i \in indexes : i - 1 \in indexes
\* isContiguousPath, over the sorted paths of one account
Contiguous(indexes) == \A i \in indexes : i = 0 \/ i - 1 \in indexes

\* Step 1: derive the addresses whose index is missing.  The holes are looked
\* for in the indexes of all accounts, the addresses are derived for one.
Filled(known, account) ==
    known \cup UNION {{<<account, type, i>> :
                          i \in MissingIndexes(IndexesOf(known, type))} : type \in Types}

\* Step 2: the account's paths, as they were before step 1, must be contiguous.
PathsContiguous(known, account) ==
    \A type \in Types : Contiguous(OwnIndexes(known, account, type))

\* Mutated form: counting from the index that stands for "none used"
IndexesFromNone(used, account, type) ==
    UNION {-1..i + Gap : i \in OwnIndexes(used, account, type) \cup {-1}}
\* The indexes an account has to know: Gap beyond its last used one, or the
\* first Gap when none is used.
IndexesNeeded(used, account, type) ==
    UpTo({i + Gap : i \in OwnIndexes(used, account, type) \cup {-1}})

\* Mutated form: beyond the last one of any account
IndexesBeyondAll(known, used, account, type) ==
    IndexesNeeded(used, account, type) \ UpTo(IndexesOf(known, type))
\* Step 3: derive the needed addresses beyond the last one the account has.
IndexesToGenerate(known, used, account, type) ==
    IndexesNeeded(used, account, type) \ UpTo(OwnIndexes(known, account, type))

\* The addresses in the store after ensureAddressesToGapLimit, which throws
\* after step 1 when the paths are not contiguous.
Ensured(known, used, account) ==
    IF PathsContiguous(known, account)
    THEN Filled(known, account)
            \cup UNION {{<<account, type, i>> :
                            i \in IndexesToGenerate(known, used, account, type)} :
                                type \in Types}
    ELSE Filled(known, account)

\* What ensureAddressesToGapLimit is for.
LooksAhead(known, used, account) ==
    \A type \in Types : \A i \in IndexesNeeded(used, account, type) :
        <<account, type, i>> \in known
=============================================================================
