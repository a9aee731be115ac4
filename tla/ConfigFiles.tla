------------------------------ MODULE ConfigFiles ------------------------------
(***************************************************************************)
(* src/client/config_files.c with the names of src/dmi.c: the lists of the *)
(* configurations there are, and the search for the one of a machine.      *)
(***************************************************************************)
EXTENDS ModelConfig

CONSTANT Aliases    \* bound: what is left of a name without its case and its vendor's alias

DMI_ModelNameEquals(a, b) ==
    LET Plain(name) == IF name \in DOMAIN Aliases THEN Aliases[name] ELSE name
    IN Plain(a) = Plain(b)

\* A directory is listed in any order, each entry without its ending.
Listings(disk, dir) ==
    LET entries == {place \in DOMAIN disk : place[1] = dir}
    IN {[i \in DOMAIN some |-> some[i][2]] : some \in Bijection(1..Cardinality(entries), entries)}

Merge_Configs(a, b) ==
    FoldLeft(LAMBDA files, name : IF \E i \in DOMAIN files : files[i] = name THEN files
                                  ELSE Append(files, name), a, b)

List_All_Configs(disk) ==
    {Merge_Configs(a, b) : a \in Listings(disk, "static"), b \in Listings(disk, "mutable")}

ConfigFiles_FindLoose(files, name) ==
    LET like == {i \in DOMAIN files : DMI_ModelNameEquals(files[i], name)}
    IN IF like = {} THEN Failed ELSE {files[CHOOSE i \in like : \A j \in like : i <= j]}

\* Of two keys for the same machine the last one counts; what the file says and is
\* not there is not looked for among the machines' own names.
Get_Supported_Config_From_SupportFile(node, files, machine) ==
    LET items == IF node.type = "object" THEN node.items ELSE <<>>
        named == SelectSeq(items, LAMBDA item : item.node.type = "string"
                                                /\ DMI_ModelNameEquals(item.key, machine))
    IN ConfigFiles_FindLoose(files, IF named = <<>> THEN machine ELSE named[Len(named)].node.text)

\* The updated support file, if there is one, and then the installed one.
Get_Supported_Config(support, files, machine) ==
    LET found == [i \in DOMAIN support |->
                     Get_Supported_Config_From_SupportFile(support[i], files, machine)]
        hits == SelectSeq(found, LAMBDA result : result # Failed)
    IN IF hits = <<>> THEN Failed ELSE hits[1]
================================================================================
