---------------------------- MODULE MCLinkedList ----------------------------
(* Sets of functions for TLC's runs of LinkedList. *)
EXTENDS LinkedList, TLC

\* What threads share; those that must be alone are among them
SharedOps == {"linked_list_push", "linked_list_getByPtr", "linked_list_getByIndex",
              "linked_list_getById", "linked_list_entry_setBlockId", "linked_list_hasPtr",
              "linked_list_removeEntryByPtr", "linked_list_pop", "sn_debug_crash", "doexit"}

\* All that one thread may do
AllOps == Searches \cup {"linked_list_push", "linked_list_pop", "linked_list_entry_setData",
                         "linked_list_entry_setBlockId", "linked_list_forEach", "sn_debug_crash",
                         "doexit"}

Addresses == Permutations(Entries) \cup Permutations(Keys) \cup Permutations(Threads)
============================================================================
