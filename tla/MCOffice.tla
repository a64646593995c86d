------------------------------ MODULE MCOffice ------------------------------
EXTENDS Office, TLC

CONSTANTS r1, r2, read, edit

\* A row of a client; K are the columns of its other foreign keys.
Of(c, t, id, K) == New(t, id, K @@ [clientId |-> c])

\* The first tenant has what the pages work on: two stores, sales with invoices,
\* and taxes.  The numbers of its invoices are as wide as they are padded to, and
\* the next of the second store is that of the first.
MCShop == {
    New("Clients", "c1", <<>>),
    [Of("c1", "Users", "u1", [businessId |-> "b1"]) EXCEPT !.out = {read}],
    Of("c1", "Business", "b1", <<>>),
    Of("c1", "Stores", "s1", <<>>), Of("c1", "Stores", "s2", <<>>),
    Of("c1", "StoreSettings", "s1", [storeId |-> "s1"]),
    Of("c1", "StoreSettings", "s2", [storeId |-> "s2"]),
    Of("c1", "Suppliers", "p1", [storeId |-> "s1"]),
    Of("c1", "Customer", "k1", [storeId |-> "s1"]),
    Of("c1", "Sales", "a1", [storeId |-> "s1", userId |-> "u1", customerId |-> "k1"]),
    Of("c1", "Sales", "a2", [storeId |-> "s2", userId |-> "u1", customerId |-> "k1"]),
    [Of("c1", "Invoice", "i1", [saleId |-> "a1", customerId |-> "k1", businessId |-> "b1"])
        EXCEPT !.no = 3],
    [Of("c1", "Invoice", "i2", [saleId |-> "a2", customerId |-> "k1", businessId |-> "b1"])
        EXCEPT !.no = 2],
    Of("c1", "SalesDraft", "d1", [storeId |-> "s1", userId |-> "u1"]),
    Of("c1", "SalesDraftItems", "d1", [saleDraftId |-> "d1"])}

\* A percentage and an amount per item; one entity has both, the other the first.
MCTaxes == {
    Named("TaxType", "t1", [clientId |-> "c1"], 1),
    Named("TaxCode", "t1", [clientId |-> "c1", taxTypeId |-> "t1"], 1),
    Named("Region", "g1", [clientId |-> "c1"], 1),
    Named("TaxRate", "x1", [clientId |-> "c1", taxTypeId |-> "t1", taxCodeId |-> "t1",
                            regionId |-> "g1"], 2),
    [Named("TaxRate", "x2", [clientId |-> "c1", taxTypeId |-> "t1", taxCodeId |-> "t1",
                             regionId |-> "g1"], 3) EXCEPT !.on = FALSE],
    Named("TaxAssignment", "e1", [clientId |-> "c1", taxRateId |-> "x1"], 1),
    Named("TaxAssignment", "e2", [clientId |-> "c1", taxRateId |-> "x2"], 1),
    Named("TaxAssignment", "e3", [clientId |-> "c1", taxRateId |-> "x1"], 2)}

\* The second tenant can be deleted: its rows are in tables the deletion knows.  Its
\* user is an employee.
MCDeletable == {
    [New("Clients", "c2", <<>>) EXCEPT !.no = 1],
    [Of("c2", "Users", "u2", [businessId |-> None]) EXCEPT !.no = 1],
    Of("c2", "Stores", "s3", <<>>),
    Of("c2", "StoreSettings", "s3", [storeId |-> "s3"]),
    Of("c2", "UserStoreMap", "s3", [userId |-> "u2", storeId |-> "s3"]),
    Of("c2", "Suppliers", "p2", [storeId |-> "s3"]),
    Of("c2", "AuditLogs", "l1", [userId |-> "u2"]),
    Of("c2", "PasswordResetTokens", "w1", [userId |-> "u2"]),
    Of("c2", "RoleTemplate", "m1", [createdBy |-> "u2"]),
    Of("c2", "UserRole", "m2", [userId |-> "u2", roleTemplateId |-> "m1", assignedBy |-> "u2"]),
    [Of("c2", "InviteLinks", "n1", [userId |-> "u2", storeId |-> "s3"]) EXCEPT !.no = 1],
    Of("c2", "Permission", "m3", [userId |-> "u2", grantedBy |-> "u2", storeId |-> "s3"]),
    Of("c2", "Customer", "k2", [storeId |-> "s3"]),
    Of("c2", "Sales", "a3", [storeId |-> "s3", userId |-> "u2", customerId |-> "k2"]),
    Of("c2", "SaleItem", "a4", [saleId |-> "a3", productId |-> None])}

\* The third has a product, and nothing else the deletion does not get rid of.
MCStocked == {
    [New("Clients", "c3", <<>>) EXCEPT !.no = 2],
    Of("c3", "Stores", "s4", <<>>),
    Of("c3", "Products", "q1", [storeId |-> "s4", categoryId |-> None, fileUploadId |-> None]),
    Of("c3", "Pack", "q2", [productId |-> "q1"])}

MCRows == MCShop \cup MCTaxes \cup MCDeletable \cup MCStocked

MCFeatures == {read, edit}
MCFeatureSets == {{read}, {edit}}
MCPurchases == {[amount |-> 3, quantity |-> 2], [amount |-> 0, quantity |-> 2]}
Interchangeable == Permutations(Requests)

\* What theorems suppose of the rows at the start.
ASSUME SeedsAssumption == SeedsHoldOneSave /\ SeedsKeepApart
=============================================================================
