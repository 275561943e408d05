SPECIFICATION Spec
CONSTANTS
  None = None
  PartnerIds = {1, 2}
  ContactIds = {1}
  AddressIds = {1, 2}
  Invoices = {i1}
  Transactions = {t1}
  Texts = {"Old office", "New office"}
  Deletions = {d1}
PROPERTY LinkedPartnersKeepContacts
